---- MODULE Spec2Model ----
(***************************************************************************)
(* SSL certificate monitor: the cooldown state store (package state), the  *)
(* notification dispatcher (package notifier) and the orchestration engine *)
(* (package engine), modelled as one state machine.                        *)
(*                                                                         *)
(* Time is a single clock counted in ticks; one hour is Hour ticks.  A     *)
(* time.Duration is a signed integer of DurationBits bits (64 in Go,       *)
(* scaled down here together with Hour) and arithmetic on it wraps.        *)
(* A time.Time value is a record [wall, mono]: the wall-clock reading and  *)
(* whether the value still carries the monotonic reading of the process    *)
(* that took it; JSON encoding keeps only the wall-clock reading.          *)
(*                                                                         *)
(* The file system is a map from path to file content.  A file is absent,  *)
(* holds a complete JSON document, or holds a truncated / partial document *)
(* (os.WriteFile truncates the file when it opens it and writes after).    *)
(***************************************************************************)
EXTENDS Integers, Sequences, FiniteSets, TLC

(* ------------------------------ bounds --------------------------------- *)

\* last tick of the clock
MaxTime == 3
\* largest cooldown_hours of the configurations of Spec and SpecStore
MaxCooldownHours == 1
\* number of processes that may exist at the same time
NumProcs == 2
\* number of processes started in one behaviour
MaxRuns == 2
\* number of MarkSent / Clear calls the store harness makes in one behaviour
MaxCalls == 2
\* number of reminder thresholds that the checks of one behaviour find crossed
MaxAlerts == 2

(* --------------------- scaled library constants ------------------------ *)

\* time.Hour, in ticks
Hour == 2
\* width of time.Duration and of int
DurationBits == 4

MaxDuration == 2^(DurationBits - 1) - 1
MinDuration == -(2^(DurationBits - 1))

\* two's complement wrap-around of an arithmetic result to DurationBits bits
Wrap(x) == ((x - MinDuration) % 2^DurationBits) + MinDuration

(* --------------------------- configuration ----------------------------- *)

Procs == 1..NumProcs

\* hosts of the configured domains
Hosts == {"a.com", "b.com"}
\* reminder_days of the monitor's configuration
MonitorReminderDays == <<7, 1>>

\* a path is its directory and its last element; "" is EmptyPath
EmptyPath == [dir |-> "", base |-> ""]
StateFile == [dir |-> "/var/lib/ssl-monitor", base |-> "state.json"]
RelFile(name) == [dir |-> ".", base |-> name]
FallbackFile == RelFile("ssl-monitor-state.json")
Paths == {StateFile, RelFile(StateFile.base), FallbackFile}

\* filepath.Dir and filepath.Base
Dir(path) == IF path = EmptyPath THEN "." ELSE path.dir
Base(path) == IF path = EmptyPath THEN "." ELSE path.base

EmptyMap == [x \in {} |-> 0]

\* domains of the monitor's configuration
MonitorDomains == <<[host |-> "a.com", port |-> 443], [host |-> "b.com", port |-> 443]>>
\* the channels in the order BuildNotifiers goes through them, by Name()
ChannelNames == <<"Slack", "Email", "Webhook", "Discord">>
Channels == {ChannelNames[k] : k \in 1..Len(ChannelNames)}
\* the configuration of a channel: its enabled flag and the fields that are
\* empty (or, for body_template, do not parse)
Channel(enabled, bad) == [enabled |-> enabled, bad |-> bad]
\* a notifications section with the given channels enabled and filled in and
\* the others left at their zero values
Enabled(names) ==
    [name \in Channels |->
        IF name \in names THEN Channel(TRUE, {})
        ELSE Channel(FALSE, IF name = "Email" THEN {"smtp_host", "from", "to"}
                            ELSE IF name = "Webhook" THEN {"url"}
                            ELSE {"webhook_url"})]
\* the notifications section of the monitor's configuration
MonitorChannels == Enabled({"Slack", "Email"})

\* NewSlackNotifier, NewEmailNotifier, NewWebhookNotifier and
\* NewDiscordNotifier: the error returned for the channel's configuration
NewNotifier(name, c) ==
    IF name = "Email"
    THEN IF "smtp_host" \in c.bad THEN "SMTP host is required"
         ELSE IF "from" \in c.bad THEN "from address is required"
         ELSE IF "to" \in c.bad THEN "to address is required"
         ELSE "nil"
    ELSE IF name = "Webhook"
    THEN IF "url" \in c.bad THEN "webhook URL is required"
         ELSE IF "body_template" \in c.bad THEN "failed to parse body template"
         ELSE "nil"
    ELSE IF "webhook_url" \in c.bad THEN "webhook URL is required"
         ELSE "nil"

RECURSIVE BuildFrom(_, _, _)
\* BuildNotifiers from its k-th channel on, with the notifiers appended so far
BuildFrom(channels, k, notifiers) ==
    IF k > Len(ChannelNames) THEN [err |-> "nil", notifiers |-> notifiers]
    ELSE LET name == ChannelNames[k]
         IN  IF ~channels[name].enabled THEN BuildFrom(channels, k + 1, notifiers)
             ELSE IF NewNotifier(name, channels[name]) # "nil"
             THEN [err |-> "failed to create notifier", notifiers |-> <<>>]
             ELSE BuildFrom(channels, k + 1, Append(notifiers, name))

\* BuildNotifiers leaving out a channel whose notifier cannot be made
BuildNotifiersLenient(channels) ==
    LET made(name) == channels[name].enabled /\ NewNotifier(name, channels[name]) = "nil"
        with(notifiers, name) == IF made(name) THEN Append(notifiers, name) ELSE notifiers
    IN  [err |-> "nil",
         notifiers |-> with(with(with(with(<<>>, "Slack"), "Email"), "Webhook"), "Discord")]

\* BuildNotifiers: the error it returns and the notifiers of the manager
BuildNotifiers(channels) == BuildFrom(channels, 1, <<>>)
\* what a channel's Send meets: its request cannot be built (the body does
\* not render or marshal, or http.NewRequestWithContext returns an error), the
\* transport fails, or a response arrives with a status
Unbuilt == [kind |-> "unbuilt", status |-> 0]
TransportError == [kind |-> "transport error", status |-> 0]
Response(status) == [kind |-> "response", status |-> status]
\* the endpoints of the monitor's channels answer 200 or 500
MonitorReplies == {Response(200), Response(500)}
\* smtp.SendMail returns nil or an error
SmtpReplies == {Response(250), TransportError}

\* HttpSend taking every status below 400 for a success
HttpSendFailingFrom400(reply) ==
    IF reply.kind = "unbuilt" THEN [err |-> "failed to create request", requests |-> 0]
    ELSE IF reply.kind = "transport error"
    THEN [err |-> "failed to send request", requests |-> 1]
    ELSE IF reply.status < 200 \/ reply.status >= 400
    THEN [err |-> "unexpected status code", requests |-> 1]
    ELSE [err |-> "nil", requests |-> 1]

\* SlackNotifier.Send, WebhookNotifier.Send and DiscordNotifier.Send: the
\* error returned and the number of calls of client.Do
HttpSend(reply) ==
    IF reply.kind = "unbuilt" THEN [err |-> "failed to create request", requests |-> 0]
    ELSE IF reply.kind = "transport error"
    THEN [err |-> "failed to send request", requests |-> 1]
    ELSE IF reply.status < 200 \/ reply.status >= 300
    THEN [err |-> "unexpected status code", requests |-> 1]
    ELSE [err |-> "nil", requests |-> 1]

\* EmailNotifier.Send: the error returned and the number of calls of
\* smtp.SendMail
EmailSend(reply) ==
    IF reply.kind = "response" THEN [err |-> "nil", requests |-> 1]
    ELSE [err |-> "failed to send email", requests |-> 1]

\* Notifier.Send of the channel
ChannelSend(name, reply) ==
    IF name = "Email" THEN EmailSend(reply) ELSE HttpSend(reply)
\* DaysRemaining of the certificates the monitor meets, in half days:
\* -2.0, 0.0, 1.0, 7.0
MonitorDays == {-4, 0, 2, 14}

\* file contents
Absent == [kind |-> "absent", doc |-> EmptyMap]
Partial == [kind |-> "partial", doc |-> EmptyMap]
Json(doc) == [kind |-> "json", doc |-> doc]
\* documents that hold no mapping: null, {} and {"entries": null}
JsonNull == [kind |-> "null", doc |-> EmptyMap]
JsonEmptyObject == [kind |-> "empty object", doc |-> EmptyMap]
JsonNullEntries == [kind |-> "null entries", doc |-> EmptyMap]

VARIABLES
    now,        \* the clock
    cfg,        \* the loaded configuration: [stateFile, cooldownHours, domains,
                \* reminderDays, notifiers], and the days-remaining of the
                \* certificates its domains present: days
    disk,       \* path -> file content
    pc,         \* process -> position
    mgr,        \* process -> state.Manager: [filePath, cooldownHours, entries]
    sv,         \* process -> the save in progress: [stage, path]
    eng,        \* process -> the locals and counters of Engine.Run, and what
                \* happened in the run: the dispatches that failed, the number
                \* that succeeded, the number of checks that failed
    dsp,        \* process -> the notifier.Manager.Send call in progress or last made
    evals,      \* process -> the thresholds evaluated in the current domain iteration
    obs,        \* process -> the last return value of a store method
    calls,      \* number of MarkSent / Clear calls made by the harness
    runs,       \* number of processes started
    alerts,     \* number of thresholds found crossed by the checks so far
    saved,      \* the mapping held at the last save that returned nil
    lastLoad,   \* what the last store construction read and what it made of it
    delivered,  \* the notifications the dispatcher reported as sent to every channel
    failed,     \* the (host, threshold) pairs whose last dispatch returned an error
    attempts    \* the dispatches that returned, in order, each with the channels
                \* whose Send returned nil, when a record of them is kept

vars == <<now, cfg, disk, pc, mgr, sv, eng, dsp, evals, obs, calls, runs, alerts,
          saved, lastLoad, delivered, failed, attempts>>

(* --------------------- the configuration in use ------------------------ *)

\* the configured domains
Domains == cfg.domains
\* the configured reminder_days
ReminderDays == cfg.reminderDays
Thresholds == {ReminderDays[i] : i \in 1..Len(ReminderDays)}
\* the notifiers BuildNotifiers makes of the enabled channels, by Name()
Notifiers == cfg.built.notifiers
\* DaysRemaining of a successful check, in half days
DaysValues == cfg.days
\* what Checker.CheckDomain returns
ProbeResults == {[success |-> FALSE, days |-> 0]}
                    \cup {[success |-> TRUE, days |-> d] : d \in DaysValues}

\* whether an operation on a file (os.ReadFile, os.MkdirAll, os.WriteFile)
\* succeeds
FileOps == IF cfg.faults THEN BOOLEAN ELSE {TRUE}

\* what the channel's Send can meet
Replies(name) == IF name = "Email" THEN SmtpReplies ELSE cfg.replies

(* ------------------------------ time ----------------------------------- *)

\* time.Now()
Now(clock) == [wall |-> clock, mono |-> TRUE]

\* time.Since(t): clock - t, saturated to the range of a Duration
Since(t, clock) ==
    LET d == clock - t.wall
    IN  IF d > MaxDuration THEN MaxDuration
        ELSE IF d < MinDuration THEN MinDuration
        ELSE d

\* time.Duration(cooldownHours) * time.Hour
CooldownDuration(cooldownHours) == Wrap(cooldownHours * Hour)

(* ----------------------- JSON encoding of State ------------------------ *)

\* Marshal writing each time to the whole hour only
MarshalWholeHours(entries) ==
    [d \in DOMAIN entries |->
        [t \in DOMAIN entries[d] |-> (entries[d][t].wall \div Hour) * Hour]]

\* json.MarshalIndent(m.state): each time as its RFC 3339 wall-clock text
Marshal(entries) ==
    [d \in DOMAIN entries |->
        [t \in DOMAIN entries[d] |-> entries[d][t].wall]]

\* json.Unmarshal(data, &m.state): times parsed from text carry no
\* monotonic reading
Unmarshal(doc) ==
    [d \in DOMAIN doc |->
        [t \in DOMAIN doc[d] |-> [wall |-> doc[d][t], mono |-> FALSE]]]

(* --------------------------- state.Manager ----------------------------- *)

NoManager == [filePath |-> EmptyPath, cooldownHours |-> 0, entries |-> EmptyMap,
              nilMap |-> FALSE]
NoSave == [stage |-> "none", path |-> EmptyPath, op |-> "none"]
NoObs == [op |-> "none", err |-> "nil"]
NoEngine == [ret |-> "none", i |-> 0, j |-> 0, days |-> 0, cancelled |-> FALSE,
             critical |-> FALSE, notificationsSent |-> 0, totalChecked |-> 0,
             totalErrors |-> 0, totalNotifications |-> 0, verified |-> <<>>,
             failedSends |-> {}, successes |-> 0, failedProbes |-> 0]
NoSend == [state |-> "idle", n |-> [host |-> "", port |-> 0, days |-> 0, threshold |-> 0],
           k |-> 0, calls |-> <<>>, errs |-> <<>>]

\* Load taking a file it cannot parse for an empty store
LoadSkippingMalformed(filePath, dsk, readable) ==
    LET made == [err |-> "nil", entries |-> EmptyMap, nilMap |-> FALSE]
    IN  IF filePath = EmptyPath THEN made
        ELSE IF dsk[filePath].kind = "absent" THEN made
        ELSE IF ~readable THEN [made EXCEPT !.err = "read"]
        ELSE IF dsk[filePath].kind = "partial" THEN made
        ELSE IF dsk[filePath].kind = "null" THEN [made EXCEPT !.err = "panic"]
        ELSE IF dsk[filePath].kind = "empty object" THEN made
        ELSE IF dsk[filePath].kind = "null entries" THEN [made EXCEPT !.nilMap = TRUE]
        ELSE [made EXCEPT !.entries = Unmarshal(dsk[filePath].doc)]

\* Manager.load on the state NewManager made: the error it returns, the
\* entries it leaves in m.state and whether m.state.Entries is left nil.
\* json.Unmarshal(data, &m.state) sets the pointer m.state to nil for the
\* document null, and the range over m.state.Entries then dereferences it:
\* the call panics.  For {"entries": null} it sets the map to nil, for {} it
\* leaves the map that NewManager made.
Load(filePath, dsk, readable) ==
    LET made == [err |-> "nil", entries |-> EmptyMap, nilMap |-> FALSE]
    IN  IF filePath = EmptyPath THEN made
        ELSE IF dsk[filePath].kind = "absent" THEN made
        ELSE IF ~readable THEN [made EXCEPT !.err = "read"]
        ELSE IF dsk[filePath].kind = "partial" THEN [made EXCEPT !.err = "unmarshal"]
        ELSE IF dsk[filePath].kind = "null" THEN [made EXCEPT !.err = "panic"]
        ELSE IF dsk[filePath].kind = "empty object" THEN made
        ELSE IF dsk[filePath].kind = "null entries" THEN [made EXCEPT !.nilMap = TRUE]
        ELSE [made EXCEPT !.entries = Unmarshal(dsk[filePath].doc)]

\* ShouldSend with the cooldown still running only before its last instant
ShouldSendAtCooldown(m, domain, threshold, clock) ==
    IF domain \notin DOMAIN m.entries THEN TRUE
    ELSE IF threshold \notin DOMAIN m.entries[domain] THEN TRUE
    ELSE Since(m.entries[domain][threshold], clock) >= CooldownDuration(m.cooldownHours)

\* Manager.ShouldSend
ShouldSend(m, domain, threshold, clock) ==
    IF domain \notin DOMAIN m.entries THEN TRUE
    ELSE IF threshold \notin DOMAIN m.entries[domain] THEN TRUE
    ELSE Since(m.entries[domain][threshold], clock) > CooldownDuration(m.cooldownHours)

\* MarkSentEntries marking the domain for every configured threshold
MarkSentEveryThreshold(entries, domain, threshold, clock) ==
    LET withDomain == IF domain \in DOMAIN entries THEN entries
                      ELSE (domain :> EmptyMap) @@ entries
    IN  [withDomain EXCEPT ![domain] = [t \in Thresholds |-> Now(clock)]]

\* MarkSentEntries starting from an empty mapping
MarkSentDroppingOthers(entries, domain, threshold, clock) ==
    domain :> (threshold :> Now(clock))

\* MarkSentEntries keeping the time of an entry that exists
MarkSentKeepingFirst(entries, domain, threshold, clock) ==
    IF domain \in DOMAIN entries /\ threshold \in DOMAIN entries[domain]
    THEN entries
    ELSE LET withDomain == IF domain \in DOMAIN entries THEN entries
                           ELSE (domain :> EmptyMap) @@ entries
         IN  [withDomain EXCEPT ![domain] = (threshold :> Now(clock)) @@ withDomain[domain]]

\* MarkSentEntries setting every entry of the store to the time of the call
MarkSentRefreshingAll(entries, domain, threshold, clock) ==
    LET withDomain == IF domain \in DOMAIN entries THEN entries
                      ELSE (domain :> EmptyMap) @@ entries
    IN  [d \in DOMAIN withDomain |->
            [t \in DOMAIN withDomain[d] \cup (IF d = domain THEN {threshold} ELSE {})
                |-> Now(clock)]]

\* Manager.MarkSent, up to the call of save
MarkSentEntries(entries, domain, threshold, clock) ==
    LET withDomain == IF domain \in DOMAIN entries THEN entries
                      ELSE (domain :> EmptyMap) @@ entries
    IN  [withDomain EXCEPT ![domain] = (threshold :> Now(clock)) @@ withDomain[domain]]

\* Manager.GetLastSent
GetLastSent(m, domain, threshold) ==
    IF domain \notin DOMAIN m.entries THEN [wall |-> 0, mono |-> FALSE, ok |-> FALSE]
    ELSE IF threshold \notin DOMAIN m.entries[domain] THEN [wall |-> 0, mono |-> FALSE, ok |-> FALSE]
    ELSE [wall |-> m.entries[domain][threshold].wall,
          mono |-> m.entries[domain][threshold].mono, ok |-> TRUE]

(* ------------------------ the store on disk ---------------------------- *)

\* the configuration LoadConfig returns, with what BuildNotifiers makes of
\* its notifications section, what the endpoints of its HTTP channels answer
\* and the days-remaining of the certificates its domains present; the
\* scheduler starts one run after the other, the operations on files can
\* fail, and no record of the dispatches is kept
Configuration(cooldownHours, domains, reminderDays, channels, days) ==
    [stateFile |-> StateFile, cooldownHours |-> cooldownHours,
     domains |-> domains, reminderDays |-> reminderDays,
     channels |-> channels, built |-> BuildNotifiers(channels),
     replies |-> MonitorReplies, days |-> days, overlap |-> FALSE, faults |-> TRUE,
     history |-> FALSE]

\* the state before the first process starts, with the configuration loaded
\* and the configured state file holding `file`
InitSystem(config, file) ==
    /\ now = 0
    /\ cfg = config
    /\ disk = [path \in Paths |-> IF path = StateFile THEN file ELSE Absent]
    /\ pc = [p \in Procs |-> "none"]
    /\ mgr = [p \in Procs |-> NoManager]
    /\ sv = [p \in Procs |-> NoSave]
    /\ eng = [p \in Procs |-> NoEngine]
    /\ dsp = [p \in Procs |-> NoSend]
    /\ evals = [p \in Procs |-> <<>>]
    /\ obs = [p \in Procs |-> NoObs]
    /\ calls = 0
    /\ runs = 0
    /\ alerts = 0
    /\ saved = [valid |-> FALSE, doc |-> EmptyMap]
    /\ lastLoad = [err |-> "none", doc |-> EmptyMap, saved |-> FALSE, expect |-> EmptyMap]
    /\ delivered = <<>>
    /\ failed = {}
    /\ attempts = <<>>

\* the same for a configuration given by its parts
InitOnFile(cooldownHours, domains, reminderDays, channels, days, file) ==
    InitSystem(Configuration(cooldownHours, domains, reminderDays, channels, days),
               file)

\* the state before the first process starts, with the configuration loaded
\* and no state file yet
InitConfig(cooldownHours, domains, reminderDays, channels, days) ==
    InitOnFile(cooldownHours, domains, reminderDays, channels, days, Absent)

\* the monitor's configuration, with cooldown_hours as given
InitWith(cooldownHours) ==
    InitConfig(cooldownHours, MonitorDomains, MonitorReminderDays, MonitorChannels,
               MonitorDays)

\* the monitor with a cooldown of whole hours
Init == \E cooldownHours \in 1..MaxCooldownHours : InitWith(cooldownHours)

\* the store with no cooldown, a negative one or one of whole hours
InitStore == \E cooldownHours \in (-1)..MaxCooldownHours : InitWith(cooldownHours)

\* the store with any cooldown_hours that LoadConfig accepts: any int
InitLoader ==
    \/ \E cooldownHours \in 0..MaxDuration : InitWith(cooldownHours)
    \/ \E cooldownHours \in MinDuration..(-1) : InitWith(cooldownHours)

\* runs do not overlap: a process starts when no other process exists
Serial(p) == p = 1 /\ \A q \in Procs : pc[q] = "none"

\* the number of runs the scheduler lets overlap
OverlapRuns == 2

\* runs overlap: a process starts while the processes before it exist
Overlapping(p) == p <= OverlapRuns /\ \A q \in Procs : q < p => pc[q] # "none"

\* the scheduler starts the process
MayStart(p) == IF cfg.overlap THEN Overlapping(p) ELSE Serial(p)

\* state.NewManager: the process continues at `next` when load returns nil
\* and ends when it returns an error or panics; `next` is "none" when what
\* follows the construction of the store fails
Construct(p, next) ==
    /\ pc[p] = "none"
    /\ runs < MaxRuns
    /\ MayStart(p)
    /\ runs' = runs + 1
    /\ \E readable \in FileOps :
         LET l == Load(cfg.stateFile, disk, readable)
         IN  /\ lastLoad' = [err |-> l.err, doc |-> Marshal(l.entries),
                             saved |-> saved.valid, expect |-> saved.doc]
             /\ IF l.err = "nil" /\ next # "none"
                THEN /\ mgr' = [mgr EXCEPT ![p] = [filePath |-> cfg.stateFile,
                                                   cooldownHours |-> cfg.cooldownHours,
                                                   entries |-> l.entries,
                                                   nilMap |-> l.nilMap]]
                     /\ pc' = [pc EXCEPT ![p] = next]
                ELSE UNCHANGED <<mgr, pc>>

\* WriteError of a save that reports no failure
WriteErrorDropped == "nil"

\* Manager.save: the error it returns when the fallback file cannot be written
WriteError == "failed to write state file"

\* the return of Manager.save to its caller: MarkSent or Clear called by the
\* harness, or MarkSent called by Engine.checkThresholds
SaveReturn(p, err) ==
    /\ sv' = [sv EXCEPT ![p] = NoSave]
    /\ saved' = IF err = "nil" THEN [valid |-> TRUE, doc |-> Marshal(mgr[p].entries)]
                ELSE saved
    /\ IF eng[p].ret = "running"
       THEN /\ pc' = [pc EXCEPT ![p] = "thresh"]
            /\ eng' = [eng EXCEPT ![p].j = @ + 1,
                                  ![p].notificationsSent =
                                      IF err = "nil" THEN @ + 1 ELSE @]
            /\ UNCHANGED obs
       ELSE /\ pc' = [pc EXCEPT ![p] = "ready"]
            /\ obs' = [obs EXCEPT ![p] = [op |-> sv[p].op, err |-> err]]
            /\ UNCHANGED eng

\* SaveOpen of a save that takes the fixed file of the working directory
\* for an empty path
SaveOpenDefaultingPath(p) ==
    /\ pc[p] = "open"
    /\ sv[p].stage = "primary"
    /\ UNCHANGED <<now, cfg, dsp, evals, calls, runs, alerts, lastLoad, delivered,
                   failed, attempts, eng, obs, saved>>
    /\ LET path == IF mgr[p].filePath = EmptyPath THEN FallbackFile
                   ELSE mgr[p].filePath
       IN  /\ mgr' = [mgr EXCEPT ![p].filePath = path]
           /\ disk' = [disk EXCEPT ![path] = Partial]
           /\ sv' = [sv EXCEPT ![p].path = path]
           /\ pc' = [pc EXCEPT ![p] = "write"]

\* Manager.save up to the opening of the file by os.WriteFile(m.filePath)
SaveOpen(p) ==
    /\ pc[p] = "open"
    /\ sv[p].stage = "primary"
    /\ UNCHANGED <<now, cfg, dsp, evals, calls, runs, alerts, lastLoad, delivered, failed, attempts>>
    /\ IF mgr[p].filePath = EmptyPath
       THEN /\ SaveReturn(p, "nil")
            /\ UNCHANGED <<disk, mgr>>
       ELSE \E mkdirOK \in FileOps, openOK \in FileOps :
              LET fp == mgr[p].filePath
                  fallbackFile == IF Base(fp) = "" THEN FallbackFile ELSE RelFile(Base(fp))
                  path == IF Dir(fp) # "" /\ Dir(fp) # "." /\ ~mkdirOK
                          THEN fallbackFile ELSE fp
              IN  /\ mgr' = [mgr EXCEPT ![p].filePath = path]
                  /\ UNCHANGED <<eng, obs, saved>>
                  /\ IF openOK
                     THEN /\ disk' = [disk EXCEPT ![path] = Partial]
                          /\ sv' = [sv EXCEPT ![p].path = path]
                          /\ pc' = [pc EXCEPT ![p] = "write"]
                     ELSE /\ sv' = [sv EXCEPT ![p].stage = "fallback"]
                          /\ UNCHANGED <<disk, pc>>

\* Manager.save: the opening of the fallback file by os.WriteFile(fallbackFile)
SaveFallbackOpen(p) ==
    /\ pc[p] = "open"
    /\ sv[p].stage = "fallback"
    /\ UNCHANGED <<now, cfg, dsp, evals, calls, runs, alerts, lastLoad, delivered, failed, mgr, attempts>>
    /\ \E openOK \in FileOps :
         IF openOK
         THEN /\ disk' = [disk EXCEPT ![FallbackFile] = Partial]
              /\ sv' = [sv EXCEPT ![p].path = FallbackFile]
              /\ pc' = [pc EXCEPT ![p] = "write"]
              /\ UNCHANGED <<eng, obs, saved>>
         ELSE /\ SaveReturn(p, WriteError)
              /\ UNCHANGED disk

\* FilePathAfterWrite of a save that does not remember the fallback file
FilePathKept(filePath, stage) == filePath

\* Manager.save: m.filePath after a write that succeeded
FilePathAfterWrite(filePath, stage) ==
    IF stage = "fallback" THEN FallbackFile ELSE filePath

\* FileAfterWrite of a save that adds its entries to those of the file
FileAfterWriteMerging(file, entries) ==
    LET mine == Marshal(entries)
        hosts == DOMAIN mine \cup DOMAIN file.doc
    IN  Json([d \in hosts |->
                 IF d \notin DOMAIN file.doc THEN mine[d]
                 ELSE IF d \notin DOMAIN mine THEN file.doc[d]
                 ELSE mine[d] @@ file.doc[d]])

\* Manager.save: the content of the file after os.WriteFile wrote the
\* marshalled state of this process
FileAfterWrite(file, entries) == Json(Marshal(entries))

\* Manager.save: the write of the marshalled state to the file os.WriteFile
\* opened, and what follows it
SaveWrite(p) ==
    /\ pc[p] = "write"
    /\ UNCHANGED <<now, cfg, dsp, evals, calls, runs, alerts, lastLoad, delivered, failed, attempts>>
    /\ \E writeOK \in FileOps :
         IF writeOK
         THEN /\ disk' = [disk EXCEPT ![sv[p].path] = FileAfterWrite(@, mgr[p].entries)]
              /\ mgr' = [mgr EXCEPT ![p].filePath = FilePathAfterWrite(@, sv[p].stage)]
              /\ SaveReturn(p, "nil")
         ELSE /\ UNCHANGED <<disk, mgr>>
              /\ IF sv[p].stage = "primary"
                 THEN /\ sv' = [sv EXCEPT ![p].stage = "fallback"]
                      /\ pc' = [pc EXCEPT ![p] = "open"]
                      /\ UNCHANGED <<eng, obs, saved>>
                 ELSE SaveReturn(p, WriteError)

\* time passes, one tick of half an hour at a time; the evaluation of one
\* domain's thresholds, with its delivery requests and file writes, ends
\* within the tick it started in
Tick ==
    /\ now < MaxTime
    /\ \A p \in Procs : pc[p] \notin {"open", "write", "send", "thresh"}
    /\ now' = now + 1
    /\ UNCHANGED <<cfg, disk, pc, mgr, sv, eng, dsp, evals, obs, calls, runs, alerts,
                   saved, lastLoad, delivered, failed, attempts>>

\* the process is gone
Gone(p) ==
    /\ pc' = [pc EXCEPT ![p] = "none"]
    /\ mgr' = [mgr EXCEPT ![p] = NoManager]
    /\ sv' = [sv EXCEPT ![p] = NoSave]
    /\ eng' = [eng EXCEPT ![p] = NoEngine]
    /\ dsp' = [dsp EXCEPT ![p] = NoSend]
    /\ evals' = [evals EXCEPT ![p] = <<>>]
    /\ obs' = [obs EXCEPT ![p] = NoObs]
    /\ UNCHANGED <<now, cfg, disk, calls, runs, alerts, saved, lastLoad, delivered, failed, attempts>>

\* the process exits after Run returned or the harness is finished, or is
\* ended by a panic
Exit(p) ==
    /\ pc[p] \in {"done", "ready", "panic"}
    /\ Gone(p)

\* the process is interrupted (killed, power loss) wherever it is
Crash(p) ==
    /\ pc[p] \in {"loop", "thresh", "send", "open", "write", "verify"}
    /\ Gone(p)

(* --------------------------- store harness ----------------------------- *)

\* a program constructs a store
NewManager(p) ==
    /\ Construct(p, "ready")
    /\ UNCHANGED <<now, cfg, disk, sv, eng, dsp, evals, obs, calls, alerts, saved,
                   delivered, failed, attempts>>

\* Manager.MarkSent: the assignment m.state.Entries[domain] = ... panics
\* when the map is nil
NilMapWrite(m) == m.nilMap

\* a program calls Manager.MarkSent
MarkSentCall(p, domain, threshold) ==
    /\ pc[p] = "ready"
    /\ calls < MaxCalls
    /\ calls' = calls + 1
    /\ IF NilMapWrite(mgr[p])
       THEN /\ pc' = [pc EXCEPT ![p] = "panic"]
            /\ UNCHANGED <<mgr, sv>>
       ELSE /\ mgr' = [mgr EXCEPT ![p].entries =
                          MarkSentEntries(@, domain, threshold, now)]
            /\ sv' = [sv EXCEPT ![p] = [stage |-> "primary", path |-> EmptyPath,
                                        op |-> "MarkSent"]]
            /\ pc' = [pc EXCEPT ![p] = "open"]
    /\ UNCHANGED <<now, cfg, disk, eng, dsp, evals, obs, runs, alerts, saved, lastLoad, delivered, failed, attempts>>

\* a program calls Manager.Clear
ClearCall(p) ==
    /\ pc[p] = "ready"
    /\ calls < MaxCalls
    /\ calls' = calls + 1
    /\ mgr' = [mgr EXCEPT ![p].entries = EmptyMap, ![p].nilMap = FALSE]
    /\ sv' = [sv EXCEPT ![p] = [stage |-> "primary", path |-> EmptyPath, op |-> "Clear"]]
    /\ pc' = [pc EXCEPT ![p] = "open"]
    /\ UNCHANGED <<now, cfg, disk, eng, dsp, evals, obs, runs, alerts, saved, lastLoad, delivered, failed, attempts>>

\* the domain keys the harness uses
HarnessHosts == {"a.com"}

NextStore ==
    \/ Tick
    \/ \E p \in Procs :
         \/ NewManager(p)
         \/ \E domain \in HarnessHosts, threshold \in Thresholds :
              MarkSentCall(p, domain, threshold)
         \/ ClearCall(p)
         \/ SaveOpen(p)
         \/ SaveFallbackOpen(p)
         \/ SaveWrite(p)
         \/ Exit(p)
         \/ Crash(p)

SpecStore == InitStore /\ [][NextStore]_vars

SpecLoader == InitLoader /\ [][NextStore]_vars

(* ------------------------- notifier.Manager ---------------------------- *)

\* the Notification checkThresholds builds
Notification(domain, days, threshold) ==
    [host |-> domain.host, port |-> domain.port, days |-> days, threshold |-> threshold]

\* SendLoopDone of a loop that stops at the first error
SendLoopDoneAtError(d) == d.k > Len(Notifiers) \/ Len(d.errs) > 0

\* Manager.Send: the loop over m.notifiers has ended
SendLoopDone(d) == d.k > Len(Notifiers)

\* CollectError keeping the last error only
CollectLastError(errs, name, err) ==
    IF err # "nil" THEN <<[name |-> name, err |-> err]>> ELSE errs

\* Manager.Send: errs after a notifier returned err
CollectError(errs, name, err) ==
    IF err # "nil" THEN Append(errs, [name |-> name, err |-> err]) ELSE errs

\* SendResult with the collected errors only logged
SendResultIgnoringErrors(errs) == "nil"

\* SendResult failing only when every notifier failed
SendResultAllFailed(errs) ==
    IF Len(errs) >= Len(Notifiers) /\ Len(errs) > 0
    THEN "failed to send notifications" ELSE "nil"

\* Manager.Send: the error it returns for the errs it collected
SendResult(errs) ==
    IF Len(errs) > 0 THEN "failed to send notifications" ELSE "nil"

\* the channels whose Send returned nil, of the calls of one dispatch
Succeeded(callSeq) ==
    {callSeq[c].name : c \in {c \in 1..Len(callSeq) : callSeq[c].err = "nil"}}

\* the record of the dispatches with one more dispatch, when it is kept
Recorded(p) ==
    IF cfg.history
    THEN Append(attempts, [host |-> dsp[p].n.host, threshold |-> dsp[p].n.threshold,
                           at |-> now, run |-> runs, ok |-> Succeeded(dsp[p].calls)])
    ELSE attempts

\* NotifierSend of a dispatcher that leaves out a channel that already
\* accepted the notification for the host and the threshold
NotifierSendOncePerChannel(p) ==
    /\ pc[p] = "send"
    /\ ~SendLoopDone(dsp[p])
    /\ LET name == Notifiers[dsp[p].k]
           accepted == \E a \in 1..Len(attempts) :
                          /\ attempts[a].host = dsp[p].n.host
                          /\ attempts[a].threshold = dsp[p].n.threshold
                          /\ name \in attempts[a].ok
       IN  IF accepted
           THEN dsp' = [dsp EXCEPT ![p].k = @ + 1]
           ELSE \E reply \in Replies(name) :
                  LET sent == ChannelSend(name, reply)
                  IN  dsp' = [dsp EXCEPT
                                ![p].calls = Append(@, [name |-> name, n |-> dsp[p].n,
                                                        reply |-> reply, err |-> sent.err,
                                                        requests |-> sent.requests]),
                                ![p].errs = CollectError(@, name, sent.err),
                                ![p].k = @ + 1]
    /\ UNCHANGED <<now, cfg, disk, pc, mgr, sv, eng, evals, obs, calls, runs, alerts,
                   saved, lastLoad, delivered, failed, attempts>>

\* Manager.Send, one iteration of its loop: the next notifier's Send is called
\* with the notification and its error, if any, is appended to errs
NotifierSend(p) ==
    /\ pc[p] = "send"
    /\ ~SendLoopDone(dsp[p])
    /\ \E reply \in Replies(Notifiers[dsp[p].k]) :
         LET name == Notifiers[dsp[p].k]
             sent == ChannelSend(name, reply)
         IN  dsp' = [dsp EXCEPT
                       ![p].calls = Append(@, [name |-> name, n |-> dsp[p].n,
                                               reply |-> reply, err |-> sent.err,
                                               requests |-> sent.requests]),
                       ![p].errs = CollectError(@, name, sent.err),
                       ![p].k = @ + 1]
    /\ UNCHANGED <<now, cfg, disk, pc, mgr, sv, eng, evals, obs, calls, runs, alerts,
                   saved, lastLoad, delivered, failed, attempts>>

\* AfterFailedSend of a loop that tries the threshold again
AfterFailedSendRetrying(e) == e

\* checkThresholds: the error of Manager.Send is logged and the loop goes on
\* to the next threshold
AfterFailedSend(e) == [e EXCEPT !.j = @ + 1]

\* Manager.Send returns after its loop, and checkThresholds acts on the
\* result: an error is logged; on nil MarkSent sets the entry and calls save,
\* or panics on a nil map
SendReturn(p) ==
    /\ pc[p] = "send"
    /\ SendLoopDone(dsp[p])
    /\ IF SendResult(dsp[p].errs) # "nil"
       THEN /\ dsp' = [dsp EXCEPT ![p].state = "failed"]
            /\ eng' = [eng EXCEPT ![p] =
                          [AfterFailedSend(@) EXCEPT !.failedSends =
                              @ \cup {[i |-> eng[p].i, j |-> eng[p].j,
                                       host |-> dsp[p].n.host,
                                       threshold |-> dsp[p].n.threshold]}]]
            /\ pc' = [pc EXCEPT ![p] = "thresh"]
            /\ failed' = failed \cup {[host |-> dsp[p].n.host,
                                         threshold |-> dsp[p].n.threshold]}
            /\ UNCHANGED <<mgr, sv, delivered>>
       ELSE /\ dsp' = [dsp EXCEPT ![p].state = "sent"]
            /\ failed' = failed \ {[host |-> dsp[p].n.host,
                                    threshold |-> dsp[p].n.threshold]}
            /\ delivered' = Append(delivered, [host |-> dsp[p].n.host,
                                               threshold |-> dsp[p].n.threshold,
                                               at |-> now])
            /\ IF NilMapWrite(mgr[p])
               THEN /\ pc' = [pc EXCEPT ![p] = "panic"]
                    /\ UNCHANGED <<mgr, sv>>
               ELSE /\ mgr' = [mgr EXCEPT ![p].entries =
                                  MarkSentEntries(@, dsp[p].n.host,
                                                  dsp[p].n.threshold, now)]
                    /\ sv' = [sv EXCEPT ![p] = [stage |-> "primary",
                                                path |-> EmptyPath,
                                                op |-> "MarkSent"]]
                    /\ pc' = [pc EXCEPT ![p] = "open"]
            /\ eng' = [eng EXCEPT ![p].successes = @ + 1]
    /\ attempts' = Recorded(p)
    /\ UNCHANGED <<now, cfg, disk, evals, obs, calls, runs, alerts, saved, lastLoad>>

(* ------------------------------ Engine --------------------------------- *)

\* float64(threshold), in half days
HalfDays(threshold) == 2 * threshold

\* Crossed with the threshold itself not counted
CrossedBelow(days, threshold) == days < HalfDays(threshold) /\ days > 0

\* Crossed without the test for the expired certificate
CrossedAnySign(days, threshold) == days <= HalfDays(threshold)

\* the condition of checkThresholds on one threshold
Crossed(days, threshold) == days <= HalfDays(threshold) /\ days > 0

\* the condition of checkThresholds for the expired certificate
Expired(days) == days <= 0

\* the number of configured thresholds a check result crosses
Alerting(result) ==
    IF result.success
    THEN Cardinality({j \in 1..Len(ReminderDays) : Crossed(result.days, ReminderDays[j])})
    ELSE 0

\* the process starts: NewEngine, which makes the store and then the
\* notifiers and returns no engine when either fails, then Run up to its loop
NewEngine(p) ==
    /\ Construct(p, IF cfg.built.err = "nil" THEN "loop" ELSE "none")
    /\ eng' = [eng EXCEPT ![p] = IF pc'[p] = "loop"
                                 THEN [NoEngine EXCEPT !.ret = "running", !.i = 1]
                                 ELSE @]
    /\ UNCHANGED <<now, cfg, disk, sv, dsp, evals, obs, calls, alerts, saved,
                   delivered, failed, attempts>>

\* the context of Run is cancelled
Cancel(p) ==
    /\ eng[p].ret = "running"
    /\ ~eng[p].cancelled
    /\ eng' = [eng EXCEPT ![p].cancelled = TRUE]
    /\ UNCHANGED <<now, cfg, disk, pc, mgr, sv, dsp, evals, obs, calls, runs, alerts,
                   saved, lastLoad, delivered, failed, attempts>>

\* CtxDone of a loop that does not look at its context
CtxNeverDone(e) == FALSE

\* Run: the select at the top of the loop finds ctx.Done() closed
CtxDone(e) == e.cancelled

\* AfterFailedCheck of a loop that a failed check ends
AfterFailedCheckBreaks(e) ==
    [e EXCEPT !.totalChecked = @ + 1, !.totalErrors = @ + 1, !.i = Len(Domains) + 1]

\* Run: the counters and the loop index after a check that failed
AfterFailedCheck(e) ==
    [e EXCEPT !.totalChecked = @ + 1, !.totalErrors = @ + 1, !.i = @ + 1]

\* RunReturn of a Run that looks at its context once more
RunReturnCtxErr(e) == IF e.cancelled THEN "context canceled" ELSE "nil"

\* Run: what it returns after the loop and the summary
RunReturn(e) == "nil"

\* Run: the top of one iteration of the loop over the domains, with the
\* check of the domain; after the last domain Run returns nil
RunDomain(p) ==
    /\ pc[p] = "loop"
    /\ IF eng[p].i > Len(Domains)
       THEN /\ eng' = [eng EXCEPT ![p].ret = RunReturn(eng[p])]
            /\ pc' = [pc EXCEPT ![p] = "done"]
            /\ UNCHANGED alerts
       ELSE IF CtxDone(eng[p])
       THEN /\ eng' = [eng EXCEPT ![p].ret = "context canceled"]
            /\ pc' = [pc EXCEPT ![p] = "done"]
            /\ UNCHANGED alerts
       ELSE \E result \in ProbeResults :
              /\ cfg.overlap \/ alerts + Alerting(result) <= MaxAlerts
              /\ alerts' = alerts + Alerting(result)
              /\ IF ~result.success
                 THEN /\ eng' = [eng EXCEPT ![p] =
                                    [AfterFailedCheck(@) EXCEPT !.failedProbes = @ + 1]]
                      /\ UNCHANGED pc
                 ELSE /\ eng' = [eng EXCEPT ![p].totalChecked = @ + 1,
                                            ![p].days = result.days,
                                            ![p].j = 1,
                                            ![p].critical = FALSE,
                                            ![p].notificationsSent = 0]
                      /\ pc' = [pc EXCEPT ![p] = "thresh"]
    /\ UNCHANGED <<now, cfg, disk, mgr, sv, dsp, evals, obs, calls, runs, saved,
                   lastLoad, delivered, failed, attempts>>

\* checkThresholds: one iteration of the loop over the reminder days
EvalThreshold(p) ==
    /\ pc[p] = "thresh"
    /\ eng[p].j <= Len(ReminderDays)
    /\ LET domain == Domains[eng[p].i]
           threshold == ReminderDays[eng[p].j]
           crossed == Crossed(eng[p].days, threshold)
           should == ShouldSend(mgr[p], domain.host, threshold, now)
       IN  /\ evals' = [evals EXCEPT ![p] =
                           Append(@, [threshold |-> threshold, should |-> should,
                                      invoked |-> crossed /\ should])]
           /\ IF crossed /\ should
              THEN /\ dsp' = [dsp EXCEPT ![p] =
                                 [state |-> "sending",
                                  n |-> Notification(domain, eng[p].days, threshold),
                                  k |-> 1, calls |-> <<>>, errs |-> <<>>]]
                   /\ pc' = [pc EXCEPT ![p] = "send"]
                   /\ UNCHANGED eng
              ELSE /\ eng' = [eng EXCEPT ![p].j = @ + 1]
                   /\ dsp' = [dsp EXCEPT ![p] = NoSend]
                   /\ UNCHANGED pc
    /\ UNCHANGED <<now, cfg, disk, mgr, sv, obs, calls, runs, alerts, saved, lastLoad,
                   delivered, failed, attempts>>

\* FinishDomain leaving the domain while thresholds are still to be evaluated
FinishDomainEarly(p) ==
    /\ pc[p] = "thresh"
    /\ eng' = [eng EXCEPT ![p].critical = Expired(eng[p].days),
                          ![p].totalNotifications = @ + eng[p].notificationsSent,
                          ![p].i = @ + 1]
    /\ pc' = [pc EXCEPT ![p] = "loop"]
    /\ dsp' = [dsp EXCEPT ![p] = NoSend]
    /\ evals' = [evals EXCEPT ![p] = <<>>]
    /\ UNCHANGED <<now, cfg, disk, mgr, sv, obs, calls, runs, alerts, saved,
                   lastLoad, delivered, failed, attempts>>

\* checkThresholds after its loop: the expired certificate is logged as an
\* error, and Run adds the notifications sent to its total
FinishDomain(p) ==
    /\ pc[p] = "thresh"
    /\ eng[p].j > Len(ReminderDays)
    /\ eng' = [eng EXCEPT ![p].critical = Expired(eng[p].days),
                          ![p].totalNotifications = @ + eng[p].notificationsSent,
                          ![p].i = @ + 1]
    /\ pc' = [pc EXCEPT ![p] = "loop"]
    /\ dsp' = [dsp EXCEPT ![p] = NoSend]
    /\ evals' = [evals EXCEPT ![p] = <<>>]
    /\ UNCHANGED <<now, cfg, disk, mgr, sv, obs, calls, runs, alerts, saved,
                   lastLoad, delivered, failed, attempts>>

Next ==
    \/ Tick
    \/ \E p \in Procs :
         \/ NewEngine(p)
         \/ Cancel(p)
         \/ RunDomain(p)
         \/ EvalThreshold(p)
         \/ NotifierSend(p)
         \/ SendReturn(p)
         \/ FinishDomain(p)
         \/ SaveOpen(p)
         \/ SaveFallbackOpen(p)
         \/ SaveWrite(p)
         \/ Exit(p)
         \/ Crash(p)

Spec == Init /\ [][Next]_vars

\* the runs in which no process is interrupted
NextRuns ==
    \/ Tick
    \/ \E p \in Procs :
         \/ NewEngine(p)
         \/ Cancel(p)
         \/ RunDomain(p)
         \/ EvalThreshold(p)
         \/ NotifierSend(p)
         \/ SendReturn(p)
         \/ FinishDomain(p)
         \/ SaveOpen(p)
         \/ SaveFallbackOpen(p)
         \/ SaveWrite(p)
         \/ Exit(p)

SpecRuns == Init /\ [][NextRuns]_vars

(* --------------------------- Engine.VerifyAll -------------------------- *)

\* the process starts in the verification mode: NewEngine, then VerifyAll up
\* to its loop
NewVerifier(p) ==
    /\ Construct(p, IF cfg.built.err = "nil" THEN "verify" ELSE "none")
    /\ eng' = [eng EXCEPT ![p] = IF pc'[p] = "verify"
                                 THEN [NoEngine EXCEPT !.ret = "verifying", !.i = 1]
                                 ELSE @]
    /\ UNCHANGED <<now, cfg, disk, sv, dsp, evals, obs, calls, alerts, saved,
                   delivered, failed, attempts>>

\* VerifyDomain going on to the evaluation of the thresholds
VerifyDomainChecking(p) ==
    /\ pc[p] = "verify"
    /\ eng[p].i <= Len(Domains)
    /\ eng' = [eng EXCEPT ![p].days = 14, ![p].j = 1]
    /\ pc' = [pc EXCEPT ![p] = "thresh"]
    /\ UNCHANGED <<now, cfg, disk, mgr, sv, dsp, evals, obs, calls, runs, alerts,
                   saved, lastLoad, delivered, failed, attempts>>

\* VerifyAll: one iteration of the loop over the domains, with the call of
\* Checker.VerifyCertificateChain whose error is only logged; after the last
\* domain VerifyAll returns nil
VerifyDomain(p) ==
    /\ pc[p] = "verify"
    /\ IF eng[p].i > Len(Domains)
       THEN /\ eng' = [eng EXCEPT ![p].ret = "nil"]
            /\ pc' = [pc EXCEPT ![p] = "done"]
       ELSE /\ \E ok \in BOOLEAN :
                 eng' = [eng EXCEPT ![p].verified =
                                        Append(@, [host |-> Domains[eng[p].i].host,
                                                   ok |-> ok]),
                                    ![p].i = @ + 1]
            /\ UNCHANGED pc
    /\ UNCHANGED <<now, cfg, disk, mgr, sv, dsp, evals, obs, calls, runs, alerts,
                   saved, lastLoad, delivered, failed, attempts>>

\* the monitor started for its notification run or for the verification
NextVerify ==
    \/ Next
    \/ \E p \in Procs :
         \/ NewVerifier(p)
         \/ VerifyDomain(p)

\* two domains, the reminder threshold 7, one channel and certificates with
\* 7.0 days remaining
InitVerify ==
    \E cooldownHours \in 1..MaxCooldownHours :
        InitConfig(cooldownHours, MonitorDomains, <<7>>, Enabled({"Slack"}), {14})

SpecVerify == InitVerify /\ [][NextVerify]_vars

\* the state files that hold a JSON document without a mapping
MappingFreeFiles == {JsonNull, JsonEmptyObject, JsonNullEntries}

\* one domain, the reminder threshold 7, one channel and a certificate with
\* 5.0 days remaining, started on a state file without a mapping
InitFiles ==
    \E cooldownHours \in 1..MaxCooldownHours, file \in MappingFreeFiles :
        InitOnFile(cooldownHours, <<[host |-> "a.com", port |-> 443]>>, <<7>>,
                   Enabled({"Slack"}), {10}, file)

\* a program that uses the store, or the monitor
NextFiles == NextStore \/ Next

SpecFiles == InitFiles /\ [][NextFiles]_vars

\* two configured domains on one host, the reminder threshold 7, one channel
\* and certificates with 5.0 days remaining
SharedHostDomains == <<[host |-> "a.com", port |-> 443], [host |-> "a.com", port |-> 8443]>>

InitSharedHost ==
    \E cooldownHours \in 1..MaxCooldownHours :
        InitConfig(cooldownHours, SharedHostDomains, <<7>>, Enabled({"Slack"}), {10})

SpecSharedHost == InitSharedHost /\ [][Next]_vars

\* the runs in which no process is interrupted or cancelled and no
\* operation on a file fails
NextUndisturbed ==
    \/ Tick
    \/ \E p \in Procs :
         \/ NewEngine(p)
         \/ RunDomain(p)
         \/ EvalThreshold(p)
         \/ NotifierSend(p)
         \/ SendReturn(p)
         \/ FinishDomain(p)
         \/ SaveOpen(p)
         \/ SaveWrite(p)
         \/ Exit(p)

\* one domain, the reminder thresholds 7 and 1, one channel and certificates
\* with 5.0 days or 1.0 day remaining, with a scheduler that lets runs
\* overlap and a file system that does not fail
InitOverlap ==
    \E cooldownHours \in 1..MaxCooldownHours :
        InitSystem([Configuration(cooldownHours, <<[host |-> "a.com", port |-> 443]>>,
                                  MonitorReminderDays, Enabled({"Slack"}), {2, 10})
                       EXCEPT !.overlap = TRUE, !.faults = FALSE], Absent)

SpecOverlap == InitOverlap /\ [][NextUndisturbed]_vars

\* the notifications sections: every channel disabled or enabled, filled in
\* or with one of its fields empty
ChannelOptions(name) ==
    {Channel(FALSE, {}), Channel(TRUE, {})} \cup
    IF name = "Email"
    THEN {Channel(TRUE, {"smtp_host"}), Channel(TRUE, {"from"}), Channel(TRUE, {"to"}),
          Channel(FALSE, {"smtp_host", "from", "to"})}
    ELSE IF name = "Webhook"
    THEN {Channel(TRUE, {"url"}), Channel(TRUE, {"body_template"})}
    ELSE {Channel(TRUE, {"webhook_url"})}

ChannelConfigs == {channels \in [Channels -> UNION {ChannelOptions(name) : name \in Channels}] :
                      \A name \in Channels : channels[name] \in ChannelOptions(name)}

\* one domain, the reminder threshold 7, a certificate with 5.0 days
\* remaining and any notifications section, with a file system that does not
\* fail
InitChannels ==
    \E cooldownHours \in 1..MaxCooldownHours, channels \in ChannelConfigs :
        InitSystem([Configuration(cooldownHours, <<[host |-> "a.com", port |-> 443]>>,
                                  <<7>>, channels, {10})
                       EXCEPT !.faults = FALSE], Absent)

SpecChannels == InitChannels /\ [][NextUndisturbed]_vars

\* the statuses the endpoint of an HTTP channel answers with
Statuses == {199, 200, 204, 299, 300, 404}
HttpReplies == {Unbuilt, TransportError} \cup {Response(status) : status \in Statuses}
\* the channels whose Send makes an HTTP request
HttpChannels == {"Slack", "Webhook", "Discord"}

\* one domain, the reminder threshold 7, a certificate with 5.0 days
\* remaining and one HTTP channel, whose endpoint answers in any way, with a
\* file system that does not fail
InitHttp ==
    \E cooldownHours \in 1..MaxCooldownHours, name \in HttpChannels :
        InitSystem([Configuration(cooldownHours, <<[host |-> "a.com", port |-> 443]>>,
                                  <<7>>, Enabled({name}), {10})
                       EXCEPT !.faults = FALSE, !.replies = HttpReplies], Absent)

SpecHttp == InitHttp /\ [][NextUndisturbed]_vars

\* one domain, the reminder threshold 7, the channels Slack and Email and
\* certificates with 5.0 or 10.0 days remaining, with a record kept of the
\* dispatches
InitPartial ==
    \E cooldownHours \in 1..MaxCooldownHours :
        InitSystem([Configuration(cooldownHours, <<[host |-> "a.com", port |-> 443]>>,
                                  <<7>>, Enabled({"Slack", "Email"}), {10, 20})
                       EXCEPT !.history = TRUE], Absent)

SpecPartial == InitPartial /\ [][Next]_vars

\* one domain, the reminder threshold 7, a certificate with 5.0 days
\* remaining, and no channel enabled or Slack alone
InitFewChannels ==
    \E cooldownHours \in 1..MaxCooldownHours, names \in {{}, {"Slack"}} :
        InitConfig(cooldownHours, <<[host |-> "a.com", port |-> 443]>>, <<7>>,
                   Enabled(names), {10})

SpecFewChannels == InitFewChannels /\ [][Next]_vars

\* one domain, the reminder threshold 7, one channel and a certificate with
\* 5.0 days remaining, with state.file left out of the configuration, so
\* that it is the empty path of DefaultConfig, or given
InitAnyPath ==
    \E cooldownHours \in 1..MaxCooldownHours, stateFile \in {EmptyPath, StateFile} :
        InitSystem([Configuration(cooldownHours, <<[host |-> "a.com", port |-> 443]>>,
                                  <<7>>, Enabled({"Slack"}), {10})
                       EXCEPT !.stateFile = stateFile], Absent)

SpecAnyPath == InitAnyPath /\ [][NextFiles]_vars

\* the end-to-end scenario: one domain, the reminder threshold 7, one channel
\* and a certificate with 5.0 days remaining
InitEndToEnd ==
    \E cooldownHours \in 1..MaxCooldownHours :
        InitConfig(cooldownHours, <<[host |-> "a.com", port |-> 443]>>, <<7>>,
                   Enabled({"Slack"}), {10})

SpecEndToEnd == InitEndToEnd /\ [][Next]_vars

(* ------------------------------ claims --------------------------------- *)

\* the store holds an entry for the pair
HasEntry(entries, domain, threshold) ==
    domain \in DOMAIN entries /\ threshold \in DOMAIN entries[domain]

\* the process has a store
Live(p) == pc[p] # "none"

\* C1: for every (host, threshold), any two notifications that the
\* dispatcher reported as sent to every channel lie more than the configured
\* cooldown apart, over all the runs on the same state file
C1_NoDuplicateInsideCooldown ==
    \A a \in 1..Len(delivered), b \in 1..Len(delivered) :
        (/\ a < b
         /\ delivered[a].host = delivered[b].host
         /\ delivered[a].threshold = delivered[b].threshold)
        => delivered[b].at - delivered[a].at > cfg.cooldownHours * Hour

\* C2: ShouldSend(d, t) is true exactly when there is no entry for (d, t) or
\* the time since the entry is strictly more than cooldownHours hours; so it
\* is true on an empty store and false when exactly the cooldown has passed
C2_ShouldSendIffAbsentOrPastCooldown ==
    \A p \in Procs : Live(p) =>
        \A domain \in Hosts, threshold \in Thresholds :
            ShouldSend(mgr[p], domain, threshold, now)
                <=> (\/ ~HasEntry(mgr[p].entries, domain, threshold)
                     \/ now - mgr[p].entries[domain][threshold].wall
                            > mgr[p].cooldownHours * Hour)

\* C2 witness: an entry exactly one cooldown of an hour old, not yet due
C2_Witness ==
    \E p \in Procs :
        /\ pc[p] = "ready"
        /\ mgr[p].cooldownHours = 1
        /\ HasEntry(mgr[p].entries, "a.com", 7)
        /\ now - mgr[p].entries["a.com"][7].wall = Hour
        /\ ~ShouldSend(mgr[p], "a.com", 7, now)

\* C3: once MarkSent(d, t) has set the entry, ShouldSend(d, t) is false at
\* every time up to and including lastSent + cooldown and true after it, for
\* every cooldown_hours the configuration loader accepts
C3_FalseUntilCooldownPassedForAnyCooldown ==
    \A p \in Procs : Live(p) =>
        \A domain \in Hosts, threshold \in Thresholds :
            HasEntry(mgr[p].entries, domain, threshold) =>
                LET lastSent == mgr[p].entries[domain][threshold].wall
                    cooldown == mgr[p].cooldownHours * Hour
                IN  /\ now <= lastSent + cooldown
                        => ~ShouldSend(mgr[p], domain, threshold, now)
                    /\ now > lastSent + cooldown
                        => ShouldSend(mgr[p], domain, threshold, now)

\* every notifier was called and returned nil
AllSucceeded(d) ==
    /\ Len(d.calls) = Len(Notifiers)
    /\ \A c \in 1..Len(d.calls) : d.calls[c].err = "nil"

\* some notifier returned an error
AnyFailed(d) == \E c \in 1..Len(d.calls) : d.calls[c].err # "nil"

\* C4: the engine calls MarkSent(host, t) only when the dispatcher returned
\* nil for the notification (host, t), every notifier having succeeded; when a
\* notifier failed the dispatcher returns an error and neither the entries in
\* memory nor the files on disk change
C4_MarkSentOnlyAfterAggregateSuccess ==
    [][\A p \in Procs :
          /\ (eng[p].ret = "running" /\ sv[p].op = "none" /\ sv'[p].op = "MarkSent")
                => /\ AllSucceeded(dsp[p])
                   /\ dsp'[p].state = "sent"
                   /\ HasEntry(mgr'[p].entries, dsp[p].n.host, dsp[p].n.threshold)
          /\ (eng[p].ret = "running" /\ pc'[p] # "none"
                 /\ mgr'[p].entries # mgr[p].entries)
                => (sv[p].op = "none" /\ sv'[p].op = "MarkSent")
          /\ (pc[p] = "send" /\ AnyFailed(dsp[p]) /\ pc'[p] # "none")
                => /\ mgr'[p] = mgr[p]
                   /\ disk' = disk
                   /\ sv'[p] = NoSave
                   /\ pc'[p] # "send" => (dsp'[p].state = "failed" /\ pc'[p] = "thresh")
      ]_vars

\* C4 witness: Slack delivered, Email failed, the dispatcher returned the error
\* and the store has no entry for the notification, in memory or on disk
C4_Witness ==
    \E p \in Procs :
        /\ dsp[p].state = "failed"
        /\ Len(dsp[p].calls) = 2
        /\ dsp[p].calls[1].err = "nil"
        /\ dsp[p].calls[2].err # "nil"
        /\ ~HasEntry(mgr[p].entries, dsp[p].n.host, dsp[p].n.threshold)
        /\ \A path \in Paths : disk[path] = Absent

\* C5: Manager.Send calls every configured notifier exactly once, in the
\* configured order and with the same notification, also after an earlier
\* notifier failed
C5_EveryNotifierCalledOnceInOrder ==
    \A p \in Procs :
        /\ \A c \in 1..Len(dsp[p].calls) :
              /\ c <= Len(Notifiers)
              /\ dsp[p].calls[c].name = Notifiers[c]
              /\ dsp[p].calls[c].n = dsp[p].n
        /\ dsp[p].state \in {"sent", "failed"} => Len(dsp[p].calls) = Len(Notifiers)

\* C5 witness: the first notifier failed and the second was still called
C5_Witness ==
    \E p \in Procs :
        /\ dsp[p].state = "failed"
        /\ Len(dsp[p].calls) = 2
        /\ dsp[p].calls[1].err # "nil"
        /\ dsp[p].calls[2].name = "Email"

IsFailure(call) == call.err # "nil"

\* the failing calls, each as the notifier's name and its error
FailuresOf(callSeq) ==
    LET failing == SelectSeq(callSeq, IsFailure)
    IN  [c \in 1..Len(failing) |-> [name |-> failing[c].name, err |-> failing[c].err]]

\* C6: Manager.Send returns nil exactly when every notifier's Send returned
\* nil; otherwise its error lists every failing notifier, and no other, with
\* that notifier's error
C6_SuccessIffAllSucceeded ==
    \A p \in Procs :
        dsp[p].state \in {"sent", "failed"} =>
            /\ dsp[p].state = "sent" <=> AllSucceeded(dsp[p])
            /\ dsp[p].errs = FailuresOf(dsp[p].calls)

\* C6 witness: both notifiers failed and the error names both
C6_Witness ==
    \E p \in Procs :
        /\ dsp[p].state = "failed"
        /\ Len(dsp[p].errs) = 2
        /\ dsp[p].errs[1].name = "Slack"
        /\ dsp[p].errs[2].name = "Email"

\* the iteration of Run over one successfully checked domain is under way
InDomain(p) == pc[p] \in {"thresh", "send", "open", "write"}

\* C7: for a successfully checked domain, threshold t is crossed exactly when
\* 0 < days-remaining <= t, and the dispatcher is invoked, once and with a
\* notification of its own, for exactly the configured thresholds that are
\* crossed and for which ShouldSend was true when they were evaluated; 6.5
\* days with thresholds 30, 14, 7, 1 crosses exactly 30, 14 and 7
C7_InvokedIffCrossedAndEligible ==
    /\ {t \in {30, 14, 7, 1} : Crossed(13, t)} = {30, 14, 7}
    /\ \A p \in Procs : InDomain(p) =>
        /\ Len(evals[p]) = IF pc[p] = "thresh" THEN eng[p].j - 1 ELSE eng[p].j
        /\ \A e \in 1..Len(evals[p]) :
              /\ evals[p][e].threshold = ReminderDays[e]
              /\ evals[p][e].invoked
                    <=> (/\ 0 < eng[p].days
                         /\ eng[p].days <= 2 * ReminderDays[e]
                         /\ evals[p][e].should)
        /\ Len(evals[p]) > 0 =>
              LET last == evals[p][Len(evals[p])]
              IN  /\ last.invoked <=> dsp[p].state # "idle"
                  /\ last.invoked =>
                        dsp[p].n = [host |-> Domains[eng[p].i].host,
                                    port |-> Domains[eng[p].i].port,
                                    days |-> eng[p].days,
                                    threshold |-> last.threshold]

\* C7 witness: one day remaining, both thresholds crossed, one notification
\* dispatched for each
C7_Witness ==
    \E p \in Procs :
        /\ pc[p] = "send"
        /\ eng[p].days = 2
        /\ Len(evals[p]) = 2
        /\ evals[p][1].invoked
        /\ evals[p][2].invoked
        /\ dsp[p].n.threshold = 1

\* C8: for a check that returns days-remaining <= 0 the run does not invoke
\* the dispatcher, creates no cooldown entry and writes no file, whatever the
\* thresholds, and checkThresholds flags the expiry
C8_ExpiredSendsNothing ==
    [][\A p \in Procs :
          (pc[p] = "thresh" /\ eng[p].days <= 0 /\ pc'[p] # "none")
            => /\ pc'[p] \in {"thresh", "loop"}
               /\ dsp'[p] = NoSend
               /\ mgr'[p] = mgr[p]
               /\ disk' = disk
               /\ delivered' = delivered
               /\ pc'[p] = "loop" => eng'[p].critical
      ]_vars

\* C8 witness: the first domain's certificate expired two days ago, its
\* iteration is over and the expiry is flagged
C8_Witness ==
    \E p \in Procs :
        /\ pc[p] = "loop"
        /\ eng[p].i = 2
        /\ eng[p].days = -4
        /\ eng[p].critical
        /\ mgr[p].entries = EmptyMap

\* C9: a store constructed from the configured state-file path holds exactly
\* the mapping that the store before it held at its last save that returned
\* nil, whichever path that save wrote
C9_ReloadReproducesLastSavedMapping ==
    lastLoad.saved => (lastLoad.err = "nil" /\ lastLoad.doc = lastLoad.expect)

\* C10: a process interrupted during save never leaves a partial state file
\* for the next store construction to read
C10_NoPartialFileVisible ==
    lastLoad.err # "unmarshal"

\* the number of (domain, threshold) pairs the store holds
EntryCount(entries) ==
    Cardinality(UNION {{<<d, t>> : t \in DOMAIN entries[d]} : d \in DOMAIN entries})

C12_MarkSentOverwritesOneEntry ==
    [][\A p \in Procs :
          (pc[p] = "ready" /\ sv'[p].op = "MarkSent") =>
              \E domain \in Hosts, threshold \in Thresholds :
                  /\ HasEntry(mgr'[p].entries, domain, threshold)
                  /\ mgr'[p].entries[domain][threshold] = [wall |-> now, mono |-> TRUE]
                  /\ EntryCount(mgr'[p].entries) =
                        EntryCount(mgr[p].entries)
                            + (IF HasEntry(mgr[p].entries, domain, threshold) THEN 0 ELSE 1)
                  /\ \A d2 \in Hosts, t2 \in Thresholds :
                        (d2 # domain \/ t2 # threshold) =>
                            /\ HasEntry(mgr'[p].entries, d2, t2)
                                  <=> HasEntry(mgr[p].entries, d2, t2)
                            /\ HasEntry(mgr[p].entries, d2, t2) =>
                                  mgr'[p].entries[d2][t2] = mgr[p].entries[d2][t2]
      ]_vars

\* C12 witness: MarkSent("a.com", 7) at time 0, saved, and again at time 1:
\* one entry, with the time of the second call
C12_Witness ==
    \E p \in Procs :
        /\ calls = 2
        /\ obs[p].op = "MarkSent"
        /\ sv[p].op = "MarkSent"
        /\ saved.valid
        /\ saved.doc = ("a.com" :> (7 :> 0))
        /\ mgr[p].entries = ("a.com" :> (7 :> [wall |-> 1, mono |-> TRUE]))
        /\ EntryCount(mgr[p].entries) = 1

\* C13: when the save inside MarkSent(d, t) fails (the configured file and
\* the fallback file both cannot be written), MarkSent returns the error, the
\* entry for (d, t) keeps the new time, so that ShouldSend(d, t) is false
\* within the cooldown, and the failing save has left no document on disk:
\* a step of a save changes a file only to truncate it or to write the
\* document of a save that returns nil
C13_FailedPersistKeepsMemoryMark ==
    [][\A p \in Procs :
          /\ (/\ pc[p] \in {"open", "write"}
              /\ sv[p].stage = "fallback"
              /\ sv[p].op = "MarkSent"
              /\ pc'[p] = "ready"
              /\ disk' = disk)
                => /\ obs'[p].op = "MarkSent"
                   /\ obs'[p].err # "nil"
                   /\ saved' = saved
                   /\ mgr'[p].entries = mgr[p].entries
                   /\ \E domain \in Hosts, threshold \in Thresholds :
                         /\ HasEntry(mgr'[p].entries, domain, threshold)
                         /\ mgr'[p].entries[domain][threshold] = [wall |-> now, mono |-> TRUE]
                         /\ mgr[p].cooldownHours >= 0
                               => ~ShouldSend(mgr'[p], domain, threshold, now)
          /\ (pc[p] \in {"open", "write"} /\ pc'[p] # "none" /\ disk' # disk)
                => \/ \E path \in Paths : disk' = [disk EXCEPT ![path] = Partial]
                   \/ /\ pc'[p] = "ready"
                      /\ obs'[p].err = "nil"
                      /\ \E path \in Paths :
                            disk' = [disk EXCEPT ![path] = Json(Marshal(mgr[p].entries))]
      ]_vars

\* C13 witness: MarkSent("a.com", 7) returned the error half an hour ago; the
\* store in memory holds the mark and refuses to send, the file a new store
\* would load holds no mark
C13_Witness ==
    \E p \in Procs :
        /\ pc[p] = "ready"
        /\ obs[p] = [op |-> "MarkSent", err |-> WriteError]
        /\ mgr[p].cooldownHours = 1
        /\ GetLastSent(mgr[p], "a.com", 7).ok
        /\ now = GetLastSent(mgr[p], "a.com", 7).wall + 1
        /\ ~ShouldSend(mgr[p], "a.com", 7, now)
        /\ Load(cfg.stateFile, disk, TRUE).err = "nil"
        /\ ~HasEntry(Load(cfg.stateFile, disk, TRUE).entries, "a.com", 7)

\* C14: NewManager on a state file that does not exist returns a store with
\* the empty mapping and no error; on a state file that exists and cannot be
\* parsed it returns an error and no store, so that NewEngine returns no
\* engine and nothing runs
C14_MissingFileEmptyMalformedFatal ==
    [][runs' = runs + 1 =>
          /\ disk[cfg.stateFile].kind = "absent" =>
                /\ lastLoad'.err = "nil"
                /\ \E p \in Procs :
                      /\ pc[p] = "none"
                      /\ pc'[p] = "loop"
                      /\ eng'[p].ret = "running"
                      /\ mgr'[p] = [filePath |-> cfg.stateFile,
                                    cooldownHours |-> cfg.cooldownHours,
                                    entries |-> EmptyMap, nilMap |-> FALSE]
          /\ disk[cfg.stateFile].kind = "partial" =>
                /\ lastLoad'.err \in {"unmarshal", "read"}
                /\ pc' = pc
                /\ mgr' = mgr
                /\ eng' = eng
                /\ disk' = disk
      ]_vars

\* C14 witness: the second process found a truncated state file; NewManager
\* returned the unmarshal error and no process exists
C14_Witness ==
    /\ runs = 2
    /\ disk[cfg.stateFile] = Partial
    /\ lastLoad.err = "unmarshal"
    /\ \A p \in Procs :
          /\ pc[p] = "none"
          /\ mgr[p] = NoManager
          /\ eng[p] = NoEngine

\* C15 as stated: a store that no longer writes the configured path writes
\* the one fixed fallback file of the working directory
C15_FallbackIsOneFixedFile ==
    \A p \in Procs :
        (Live(p) /\ mgr[p].filePath # cfg.stateFile) => mgr[p].filePath = FallbackFile

\* C15: when the directory of the state file cannot be created save goes on
\* with the file of the configured base name in the working directory, and
\* when the file cannot be written it writes the fixed file of the working
\* directory; a save that wrote returns nil with m.filePath naming the file
\* that holds the document, and once m.filePath has left the configured path
\* no later save of the process writes or truncates the configured path; a
\* store redirected to the fixed file stays there
C15_FallbackRedirectsToWorkingDirectory ==
    [][\A p \in Procs : (Live(p) /\ pc'[p] # "none") =>
          /\ mgr'[p].filePath \in
                {cfg.stateFile, RelFile(Base(cfg.stateFile)), FallbackFile}
          /\ mgr[p].filePath # cfg.stateFile =>
                /\ mgr'[p].filePath # cfg.stateFile
                /\ disk'[cfg.stateFile] = disk[cfg.stateFile]
          /\ mgr[p].filePath = FallbackFile =>
                /\ mgr'[p].filePath = FallbackFile
                /\ \A path \in Paths \ {FallbackFile} : disk'[path] = disk[path]
          /\ \A path \in Paths :
                disk'[path] # disk[path] => path \in {mgr'[p].filePath, FallbackFile}
          /\ (pc[p] = "write" /\ pc'[p] # "open" /\ disk' # disk) =>
                /\ saved' = [valid |-> TRUE, doc |-> Marshal(mgr[p].entries)]
                /\ disk'[mgr'[p].filePath] = Json(Marshal(mgr[p].entries))
      ]_vars

\* C15 witness: the first save of the process wrote the fixed fallback file
\* and returned nil; the second save of the process starts from that file
C15_Witness ==
    \E p \in Procs :
        /\ calls = 2
        /\ pc[p] = "open"
        /\ sv[p].stage = "primary"
        /\ mgr[p].filePath = FallbackFile
        /\ saved.valid
        /\ disk[FallbackFile] = Json(saved.doc)
        /\ disk[cfg.stateFile].kind # "json"

\* C16: when the context is cancelled at the top of a domain iteration, Run
\* checks no domain any more and returns the cancellation error: from then on
\* the process checks nothing, calls no notifier, marks nothing and writes no
\* file
C16_CancelledRunStopsAtLoopTop ==
    [][\A p \in Procs :
          (/\ \/ pc[p] = "loop" /\ eng[p].cancelled /\ eng[p].i <= Len(Domains)
              \/ pc[p] = "done"
           /\ pc'[p] # "none")
            => /\ pc'[p] \in {pc[p], "done"}
               /\ pc'[p] = "done" =>
                     (eng'[p].ret = IF pc[p] = "loop" THEN "context canceled"
                                    ELSE eng[p].ret)
               /\ eng'[p].totalChecked = eng[p].totalChecked
               /\ eng'[p].i = eng[p].i
               /\ dsp'[p] = dsp[p]
               /\ mgr'[p] = mgr[p]
               /\ disk' = disk
               /\ delivered' = delivered
      ]_vars

\* C16 witness: the context was cancelled during the first domain's
\* iteration; Run returned the cancellation error with one domain checked
C16_Witness ==
    \E p \in Procs :
        /\ pc[p] = "done"
        /\ eng[p].ret = "context canceled"
        /\ eng[p].i = 2
        /\ eng[p].totalChecked = 1
        /\ Len(Domains) = 2

\* C17: Run checks the domains one by one in order, each once, whatever the
\* checks, the notifiers and the saves before returned; it returns nil after
\* the last domain, and returns an error only when its context was cancelled
C17_EveryDomainCheckedOnce ==
    \A p \in Procs :
        /\ pc[p] = "loop" => eng[p].totalChecked = eng[p].i - 1
        /\ InDomain(p) => (eng[p].totalChecked = eng[p].i /\ eng[p].i <= Len(Domains))
        /\ eng[p].totalErrors <= eng[p].totalChecked
        /\ pc[p] = "done" =>
              \/ /\ eng[p].ret = "nil"
                 /\ eng[p].totalChecked = Len(Domains)
              \/ /\ eng[p].ret = "context canceled"
                 /\ eng[p].cancelled

\* C17 witness: a run that was not cancelled returned nil with both domains
\* checked, after a check that failed and a notification that no save or no
\* notifier let through
C17_Witness ==
    \E p \in Procs :
        /\ pc[p] = "done"
        /\ runs = 1
        /\ ~eng[p].cancelled
        /\ eng[p].ret = "nil"
        /\ eng[p].totalChecked = 2
        /\ eng[p].totalErrors = 1
        /\ alerts > 0
        /\ eng[p].totalNotifications = 0

\* a notification for the pair was reported as sent to every channel
Delivered(host, threshold) ==
    \E k \in 1..Len(delivered) :
        delivered[k].host = host /\ delivered[k].threshold = threshold

\* C18: a dispatch for (host, t) in which a notifier failed leaves the
\* entries in memory and the files on disk exactly as they were before the
\* attempt, so a pair whose every dispatch failed has no entry anywhere; and
\* whenever t is evaluated for a host whose last dispatch for t failed, in
\* this or a later run, with t crossed and ShouldSend true, the dispatcher is
\* invoked again for (host, t)
C18_FailedDispatchLeavesStateAndIsRetried ==
    [][\A p \in Procs :
          /\ (pc[p] = "send" /\ pc'[p] # "none"
                  /\ (AnyFailed(dsp[p]) \/ pc'[p] = "send"))
                => /\ mgr'[p] = mgr[p]
                   /\ disk' = disk
                   /\ saved' = saved
                   /\ pc'[p] \in {"send", "thresh"}
                   /\ pc'[p] = "thresh" =>
                         [host |-> dsp[p].n.host, threshold |-> dsp[p].n.threshold]
                             \in failed'
          /\ \A pair \in failed :
                ~Delivered(pair.host, pair.threshold) =>
                    /\ Live(p) => ~HasEntry(mgr[p].entries, pair.host, pair.threshold)
                    /\ \A path \in Paths :
                          ~HasEntry(disk[path].doc, pair.host, pair.threshold)
          /\ (/\ pc[p] = "thresh"
              /\ evals'[p] # evals[p]
              /\ pc'[p] # "none"
              /\ eng[p].j <= Len(ReminderDays)
              /\ [host |-> Domains[eng[p].i].host, threshold |-> ReminderDays[eng[p].j]]
                    \in failed
              /\ 0 < eng[p].days
              /\ eng[p].days <= 2 * ReminderDays[eng[p].j]
              /\ ShouldSend(mgr[p], Domains[eng[p].i].host, ReminderDays[eng[p].j], now))
                => /\ pc'[p] = "send"
                   /\ dsp'[p].state = "sending"
                   /\ dsp'[p].n.host = Domains[eng[p].i].host
                   /\ dsp'[p].n.threshold = ReminderDays[eng[p].j]
      ]_vars

\* C18 witness: the dispatch for ("a.com", 7) failed in the first run and
\* the second run has invoked the dispatcher for ("a.com", 7) again
C18_Witness ==
    \E p \in Procs :
        /\ runs = 2
        /\ pc[p] = "send"
        /\ dsp[p].n.host = "a.com"
        /\ dsp[p].n.threshold = 7
        /\ [host |-> "a.com", threshold |-> 7] \in failed
        /\ ~Delivered("a.com", 7)

\* C19: with one domain, the threshold 7, one channel that succeeds and a
\* check that returns 5.0 days remaining, the first run on an empty store
\* sends exactly one notification, leaves exactly one entry, for (host, 7),
\* and ends with domains_checked = 1 and notifications_sent = 1
C19_EndToEndOneNotification ==
    \A p \in Procs :
        (/\ pc[p] = "done"
         /\ runs = 1
         /\ eng[p].ret = "nil"
         /\ eng[p].totalErrors = 0
         /\ failed = {})
            => /\ Len(delivered) = 1
               /\ delivered[1].host = "a.com"
               /\ delivered[1].threshold = 7
               /\ EntryCount(mgr[p].entries) = 1
               /\ HasEntry(mgr[p].entries, "a.com", 7)
               /\ eng[p].totalChecked = 1
               /\ eng[p].totalNotifications = 1

\* every entry of the mapping, with the given time of each, belongs to a
\* notification reported as sent to every channel at that time
AllDelivered(doc) ==
    \A d \in DOMAIN doc : \A t \in DOMAIN doc[d] :
        \E k \in 1..Len(delivered) :
            delivered[k] = [host |-> d, threshold |-> t, at |-> doc[d][t]]

\* C20: every entry, in the memory of a process and in every file, is for a
\* (host, threshold) pair for which the dispatcher returned nil at the time
\* the entry holds; and an entry appears in memory only by the load of the
\* state file or in the step that follows a dispatch for its pair in which
\* every notifier succeeded: an evaluation, a failed check, an uncrossed
\* threshold and a failed dispatch create none
C20_EntryOnlyAfterSuccessfulDispatch ==
    [][/\ \A p \in Procs : AllDelivered(Marshal(mgr[p].entries))
       /\ \A path \in Paths : AllDelivered(disk[path].doc)
       /\ \A p \in Procs : AllDelivered(Marshal(mgr[p].entries))'
       /\ \A path \in Paths : AllDelivered(disk[path].doc)'
       /\ \A p \in Procs : \A d \in Hosts, t \in Thresholds :
             (HasEntry(mgr'[p].entries, d, t) /\ ~HasEntry(mgr[p].entries, d, t)) =>
                 \/ /\ pc[p] = "none"
                    /\ HasEntry(disk[cfg.stateFile].doc, d, t)
                 \/ /\ pc[p] = "send"
                    /\ AllSucceeded(dsp[p])
                    /\ dsp[p].n.host = d
                    /\ dsp[p].n.threshold = t
      ]_vars

\* C20 witness: one day remaining for a.com; the notification for threshold
\* 7 went out and the one for threshold 1 failed: the store holds an entry
\* for ("a.com", 7) and none for ("a.com", 1)
C20_Witness ==
    \E p \in Procs :
        /\ pc[p] = "loop"
        /\ eng[p].days = 2
        /\ Delivered("a.com", 7)
        /\ [host |-> "a.com", threshold |-> 1] \in failed
        /\ HasEntry(mgr[p].entries, "a.com", 7)
        /\ ~HasEntry(mgr[p].entries, "a.com", 1)
        /\ EntryCount(mgr[p].entries) = 1

\* the (host, threshold) pairs that have an entry
Pairs(entries) == UNION {{<<d, t>> : t \in DOMAIN entries[d]} : d \in DOMAIN entries}

\* C21: no step of a store removes an entry except a call of Clear: over
\* MarkSent calls, saves that succeed or fail and the passing of time, also
\* past the cooldown, the set of (host, threshold) pairs with an entry never
\* loses a member, and a call of Clear leaves it empty
C21_EntriesOnlyGrowUnlessCleared ==
    [][\A p \in Procs :
          (Live(p) /\ pc'[p] # "none") =>
              IF pc[p] = "ready" /\ sv'[p].op = "Clear"
              THEN Pairs(mgr'[p].entries) = {}
              ELSE Pairs(mgr[p].entries) \subseteq Pairs(mgr'[p].entries)
      ]_vars

\* C21 witness: an entry made at time 0 is still there after its cooldown of
\* one hour has passed and a second pair was marked
C21_Witness ==
    \E p \in Procs :
        /\ pc[p] = "ready"
        /\ mgr[p].cooldownHours = 1
        /\ HasEntry(mgr[p].entries, "a.com", 7)
        /\ HasEntry(mgr[p].entries, "a.com", 1)
        /\ mgr[p].entries["a.com"][7].wall = 0
        /\ now - mgr[p].entries["a.com"][7].wall > Hour
        /\ ShouldSend(mgr[p], "a.com", 7, now)

\* C22: after Clear returned, the mapping in memory is empty: ShouldSend is
\* true and GetLastSent reports absence for every pair; and when Clear
\* returned nil the empty mapping is persisted: the next store constructed,
\* no other save having returned nil in between and the state file being
\* readable, loads without error and is empty
C22_ClearEmptiesAndPersists ==
    /\ \A p \in Procs :
          (pc[p] = "ready" /\ obs[p].op = "Clear") =>
              /\ mgr[p].entries = EmptyMap
              /\ \A domain \in Hosts, threshold \in Thresholds :
                    /\ ShouldSend(mgr[p], domain, threshold, now)
                    /\ ~GetLastSent(mgr[p], domain, threshold).ok
    /\ (lastLoad.saved /\ lastLoad.expect = EmptyMap /\ lastLoad.err # "read") =>
          (lastLoad.err = "nil" /\ lastLoad.doc = EmptyMap)

\* C23: a VerifyAll pass verifies every configured domain once, in order,
\* and returns nil whatever the verifications returned; no step of the pass
\* starts a dispatch or a save or changes the entries in memory, the files on
\* disk or the record of what was delivered
C23_VerifyAllLeavesStoreAndDispatcher ==
    [][\A p \in Procs :
          pc[p] = "verify" =>
              /\ pc'[p] \in {"verify", "done", "none"}
              /\ pc'[p] # "none" => mgr'[p] = mgr[p]
              /\ disk' = disk
              /\ delivered' = delivered
              /\ failed' = failed
              /\ saved' = saved
              /\ \A q \in Procs : dsp'[q] = NoSend /\ sv'[q] = NoSave
              /\ pc'[p] = "done" =>
                    /\ eng'[p].ret = "nil"
                    /\ Len(eng'[p].verified) = Len(Domains)
                    /\ \A k \in 1..Len(Domains) :
                          eng'[p].verified[k].host = Domains[k].host
              /\ (pc'[p] = "verify" /\ now' = now) =>
                    /\ Len(eng'[p].verified) = Len(eng[p].verified) + 1
                    /\ eng'[p].i = eng[p].i + 1
      ]_vars

\* C23 witness: a pass over a store that holds an entry ended with one
\* verification failed and one successful, the entry and its file as they were
C23_Witness ==
    \E p \in Procs :
        /\ pc[p] = "done"
        /\ eng[p].ret = "nil"
        /\ Len(eng[p].verified) = 2
        /\ ~eng[p].verified[1].ok
        /\ eng[p].verified[2].ok
        /\ HasEntry(mgr[p].entries, "a.com", 7)
        /\ disk[StateFile] = Json(Marshal(mgr[p].entries))

\* C24: no operation panics: the construction of a store returns, with a
\* store or an error, also when the state file holds null, {} or
\* {"entries": null}, and no call of MarkSent, by a program or by a run of
\* the engine, on a store so constructed ends in a panic
C24_NoPanic ==
    /\ lastLoad.err # "panic"
    /\ \A p \in Procs : pc[p] # "panic"

\* the dispatches of the running process that returned an error, as
\* (host, threshold) pairs
FailedPairs(p) ==
    {[host |-> f.host, threshold |-> f.threshold] : f \in eng[p].failedSends}

\* checkThresholds invokes the dispatcher in this step
Invokes(p) == pc[p] = "thresh" /\ pc'[p] = "send"

C26_WholeFileRewriteWithoutMerge ==
    [][\A p \in Procs :
          /\ (pc[p] = "none" /\ pc'[p] = "loop") =>
                mgr'[p].entries = Unmarshal(disk[cfg.stateFile].doc)
          /\ (pc[p] = "write" /\ pc'[p] # "write") =>
                /\ disk'[sv[p].path] = Json(Marshal(mgr[p].entries))
                /\ \A q \in Procs \ {p} : mgr'[q] = mgr[q]
          /\ (pc[p] \notin {"none", "send"} /\ pc'[p] # "none" /\ pc'[p] = pc[p]) =>
                mgr'[p].entries = mgr[p].entries
      ]_vars

\* C26 witness: both runs have ended; the entry for (a.com, 1) that one run
\* marked and saved is missing from the file the other run wrote last, and
\* the notification for (a.com, 7) was delivered twice inside one cooldown
C26_Witness ==
    /\ \A p \in 1..OverlapRuns : pc[p] = "done"
    /\ \E p \in Procs : HasEntry(mgr[p].entries, "a.com", 1)
    /\ disk[cfg.stateFile].kind = "json"
    /\ HasEntry(disk[cfg.stateFile].doc, "a.com", 7)
    /\ ~HasEntry(disk[cfg.stateFile].doc, "a.com", 1)
    /\ \E a \in 1..Len(delivered), b \in 1..Len(delivered) :
          /\ a < b
          /\ delivered[a].host = "a.com" /\ delivered[b].host = "a.com"
          /\ delivered[a].threshold = 7 /\ delivered[b].threshold = 7
          /\ delivered[b].at - delivered[a].at <= cfg.cooldownHours * Hour

\* the channel's enabled flag is set
IsEnabled(name) == cfg.channels[name].enabled

\* the enabled channels in the order Slack, Email, Webhook, Discord
EnabledInOrder == SelectSeq(ChannelNames, IsEnabled)

\* an enabled channel lacks its webhook URL, SMTP host, from or to address
LacksRequiredField ==
    \E name \in Channels :
        /\ IsEnabled(name)
        /\ cfg.channels[name].bad \cap {"webhook_url", "url", "smtp_host", "from", "to"} # {}

\* C27: when an enabled channel lacks a required field no engine exists and
\* no domain is checked; otherwise the dispatcher of every engine calls
\* exactly the enabled channels, in the order Slack, Email, Webhook, Discord
C27_EnabledChannelsInOrderOrNoEngine ==
    /\ LacksRequiredField =>
          /\ \A p \in Procs : pc[p] = "none" /\ eng[p] = NoEngine /\ dsp[p] = NoSend
          /\ alerts = 0
          /\ delivered = <<>>
    /\ \A p \in Procs :
          /\ \A c \in 1..Len(dsp[p].calls) :
                /\ c <= Len(EnabledInOrder)
                /\ dsp[p].calls[c].name = EnabledInOrder[c]
          /\ dsp[p].state \in {"sent", "failed"} =>
                Len(dsp[p].calls) = Len(EnabledInOrder)

\* C27 witness: Slack is enabled and filled in, Email is enabled without a
\* to address; the store was constructed and no engine came of it
C27_Witness ==
    /\ runs = MaxRuns
    /\ lastLoad.err = "nil"
    /\ cfg.channels["Slack"] = Channel(TRUE, {})
    /\ cfg.channels["Email"] = Channel(TRUE, {"to"})
    /\ \A p \in Procs : pc[p] = "none"

\* the status is one of 200..299
Is2xx(status) == 200 <= status /\ status <= 299

\* C28 as claimed: every Send of an HTTP channel makes exactly one request,
\* and it returns an error exactly when the transport failed or the status of
\* the response is outside 200..299
C28_ExactlyOneRequestPerSend ==
    \A p \in Procs : \A c \in 1..Len(dsp[p].calls) :
        LET call == dsp[p].calls[c]
        IN  call.name \in HttpChannels =>
                /\ call.requests = 1
                /\ call.err # "nil" <=>
                       \/ call.reply.kind = "transport error"
                       \/ call.reply.kind = "response" /\ ~Is2xx(call.reply.status)

\* C28: every Send of an HTTP channel makes one request and no more, or none
\* when the request cannot be built; it returns an error exactly when the
\* request could not be built, the transport failed or the status of the
\* response is outside 200..299, so for 199 and 300 and not for 200 and 299;
\* and the dispatcher calls the channel once for the notification
C28_AtMostOneRequestFailureIffNot2xx ==
    \A p \in Procs :
        /\ Len(dsp[p].calls) <= Len(Notifiers)
        /\ \A c \in 1..Len(dsp[p].calls) :
              LET call == dsp[p].calls[c]
              IN  call.name \in HttpChannels =>
                      /\ call.requests = IF call.reply.kind = "unbuilt" THEN 0 ELSE 1
                      /\ call.err # "nil" <=>
                             \/ call.reply.kind \in {"unbuilt", "transport error"}
                             \/ call.reply.kind = "response"
                                    /\ ~Is2xx(call.reply.status)

\* C28 witness: the endpoint of the Discord channel answered 300 to the one
\* request made, and Send returned an error
C28_Witness ==
    \E p \in Procs :
        /\ dsp[p].state = "failed"
        /\ Len(dsp[p].calls) = 1
        /\ dsp[p].calls[1].name = "Discord"
        /\ dsp[p].calls[1].reply = Response(300)
        /\ dsp[p].calls[1].requests = 1
        /\ dsp[p].calls[1].err = "unexpected status code"

\* C29: when Run has returned nil, its summary reports as domains checked the
\* number of configured domains, as errors the number of checks that failed
\* and as notifications sent the number of notifications for which the
\* dispatcher returned nil during the run
C29_SummaryCountsWhatHappened ==
    \A p \in Procs :
        (pc[p] = "done" /\ eng[p].ret = "nil" /\ eng[p].verified = <<>>) =>
            /\ eng[p].totalChecked = Len(Domains)
            /\ eng[p].totalErrors = eng[p].failedProbes
            /\ eng[p].totalNotifications = eng[p].successes

\* C30: a cancellation that arrives while a domain's thresholds are being
\* evaluated, its notifications delivered or its entries saved does not end
\* the run there: every such step leads where it leads without the
\* cancellation; the run ends with the context's error only at the top of an
\* iteration, and a run cancelled during its last domain returns nil
C30_CancellationSeenOnlyAtLoopTop ==
    [][\A p \in Procs :
          /\ (InDomain(p) /\ eng[p].cancelled /\ pc'[p] # "none") =>
                /\ pc'[p] \in {"thresh", "send", "open", "write", "loop"}
                /\ eng'[p].ret = "running"
                /\ eng'[p].cancelled
          /\ (eng[p].ret = "running" /\ eng'[p].ret = "context canceled") =>
                /\ pc[p] = "loop" /\ pc'[p] = "done"
                /\ eng[p].cancelled
                /\ eng[p].i <= Len(Domains)
                /\ eng'[p].totalChecked = eng[p].i - 1
          /\ (pc[p] = "loop" /\ eng[p].i > Len(Domains) /\ pc'[p] = "done") =>
                eng'[p].ret = "nil"
          /\ (~eng[p].cancelled /\ eng'[p].cancelled) =>
                /\ pc'[p] = pc[p]
                /\ dsp'[p] = dsp[p] /\ sv'[p] = sv[p] /\ mgr'[p] = mgr[p]
      ]_vars

\* C30 witness: the run is cancelled and in its last domain, and the
\* dispatch goes on: one channel was called and the next is still to be called
C30_Witness ==
    \E p \in Procs :
        /\ pc[p] = "send"
        /\ eng[p].cancelled
        /\ eng[p].i = Len(Domains)
        /\ Len(dsp[p].calls) = 1
        /\ Len(Notifiers) = 2

\* C31: a run works on one domain and one threshold at a time, in the
\* configured order: the check of a domain starts at the top of the loop, with
\* no dispatch and no save of the domain before it under way, and the loop
\* index goes up by one at a time; the iteration of a checked domain ends
\* only when every configured threshold was evaluated and the dispatch and
\* the MarkSent of the last one returned; a threshold is evaluated, in the
\* order of reminder_days, only when the dispatch and the MarkSent of the
\* threshold before it returned; and while a dispatch or a save is under way
\* nothing else of the run moves
C31_OneDomainAndThresholdAtATime ==
    [][\A p \in Procs :
          (eng[p].ret = "running" /\ pc'[p] # "none") =>
              /\ eng'[p].i \in {eng[p].i, eng[p].i + 1}
              /\ eng'[p].totalChecked # eng[p].totalChecked =>
                    /\ pc[p] = "loop"
                    /\ sv[p] = NoSave
                    /\ dsp[p] = NoSend
                    /\ evals[p] = <<>>
                    /\ eng'[p].totalChecked = eng[p].i
              /\ eng'[p].i = eng[p].i + 1 =>
                    \/ pc[p] = "loop" /\ pc'[p] = "loop"
                    \/ /\ pc[p] = "thresh" /\ pc'[p] = "loop"
                       /\ Len(evals[p]) = Len(ReminderDays)
                       /\ sv[p] = NoSave
                       /\ dsp[p].state # "sending"
              /\ (evals'[p] # evals[p] /\ evals'[p] # <<>>) =>
                    /\ pc[p] = "thresh"
                    /\ sv[p] = NoSave
                    /\ dsp[p].state # "sending"
                    /\ Len(evals'[p]) = Len(evals[p]) + 1
                    /\ SubSeq(evals'[p], 1, Len(evals[p])) = evals[p]
                    /\ evals'[p][Len(evals'[p])].threshold = ReminderDays[Len(evals'[p])]
                    /\ evals'[p][Len(evals'[p])].should =
                          ShouldSend(mgr[p], Domains[eng[p].i].host,
                                     ReminderDays[Len(evals'[p])], now)
              /\ pc[p] \in {"send", "open", "write"} =>
                    /\ eng'[p].i = eng[p].i
                    /\ eng'[p].totalChecked = eng[p].totalChecked
                    /\ evals'[p] = evals[p]
                    /\ dsp'[p].n = dsp[p].n
                    /\ dsp'[p].k \in {dsp[p].k, dsp[p].k + 1}
      ]_vars

\* C31 witness: one day remaining for a.com; the notifications for its
\* thresholds 7 and 1 went out and were marked one after the other, and the
\* run is now at the thresholds of b.com
C31_Witness ==
    \E p \in Procs :
        /\ pc[p] = "thresh"
        /\ eng[p].i = 2
        /\ Len(evals[p]) = 1
        /\ Len(delivered) = 2
        /\ delivered[1].host = "a.com" /\ delivered[1].threshold = 7
        /\ delivered[2].host = "a.com" /\ delivered[2].threshold = 1
        /\ HasEntry(mgr[p].entries, "a.com", 7)
        /\ HasEntry(mgr[p].entries, "a.com", 1)

\* the last save that returned nil holds an entry for the pair that is no
\* older than the cooldown
MarkedInsideCooldown(host, threshold) ==
    /\ saved.valid
    /\ HasEntry(saved.doc, host, threshold)
    /\ now - saved.doc[host][threshold] <= cfg.cooldownHours * Hour

\* C32: the entries are keyed by the host alone: once a notification for
\* (host, t) was sent and MarkSent returned nil, the evaluation of t for a
\* second configured domain on the same host and another port finds
\* ShouldSend(host, t) false and does not invoke the dispatcher, in the same
\* run and in every later run inside the cooldown
C32_SharedHostSuppressedInsideCooldown ==
    [][\A p \in Procs :
          (/\ pc[p] = "thresh"
           /\ evals'[p] # evals[p]
           /\ pc'[p] # "none"
           /\ eng[p].j <= Len(ReminderDays)
           /\ Domains[eng[p].i].port # Domains[1].port
           /\ Domains[eng[p].i].host = Domains[1].host
           /\ MarkedInsideCooldown(Domains[eng[p].i].host, ReminderDays[eng[p].j]))
            => /\ ~evals'[p][Len(evals'[p])].should
               /\ ~evals'[p][Len(evals'[p])].invoked
               /\ pc'[p] = "thresh"
               /\ dsp'[p] = NoSend
      ]_vars

\* the last dispatch for the pair went through on one channel at least and
\* failed on another
LastPartial(host, threshold) ==
    \E a \in 1..Len(attempts) :
        /\ attempts[a].host = host /\ attempts[a].threshold = threshold
        /\ attempts[a].ok # {}
        /\ attempts[a].ok # {Notifiers[k] : k \in 1..Len(Notifiers)}
        /\ \A b \in (a + 1)..Len(attempts) :
              attempts[b].host # host \/ attempts[b].threshold # threshold

\* C33: a dispatch for (host, t) in which a channel failed leaves no entry,
\* whichever channels accepted the notification; when t is evaluated again
\* for the host and is still crossed, ShouldSend is true and the dispatcher
\* is invoked anew, and every dispatch that returns has called every channel,
\* the channel that accepted the notification before included: that channel
\* gets the notification twice inside one cooldown (the witness)
C33_PartialFailureRedeliversToEveryChannel ==
    [][\A p \in Procs :
          /\ (/\ pc[p] = "thresh"
              /\ evals'[p] # evals[p]
              /\ pc'[p] # "none"
              /\ eng[p].j <= Len(ReminderDays)
              /\ Crossed(eng[p].days, ReminderDays[eng[p].j])
              /\ LastPartial(Domains[eng[p].i].host, ReminderDays[eng[p].j]))
                => /\ evals'[p][Len(evals'[p])].should
                   /\ pc'[p] = "send"
                   /\ dsp'[p].state = "sending"
                   /\ dsp'[p].n.host = Domains[eng[p].i].host
                   /\ dsp'[p].n.threshold = ReminderDays[eng[p].j]
                   /\ dsp'[p].k = 1
                   /\ dsp'[p].calls = <<>>
          /\ (pc[p] = "send" /\ pc'[p] \notin {"send", "none"})
                => /\ Len(dsp[p].calls) = Len(Notifiers)
                   /\ \A c \in 1..Len(Notifiers) :
                         /\ dsp[p].calls[c].name = Notifiers[c]
                         /\ dsp[p].calls[c].n = dsp[p].n
                   /\ attempts' = Append(attempts,
                                         [host |-> dsp[p].n.host,
                                          threshold |-> dsp[p].n.threshold,
                                          at |-> now, run |-> runs,
                                          ok |-> Succeeded(dsp[p].calls)])
                   /\ AnyFailed(dsp[p]) =>
                         /\ pc'[p] = "thresh"
                         /\ mgr'[p] = mgr[p]
                         /\ disk' = disk
      ]_vars

\* C33 witness: in the first run Slack accepted the notification for
\* (a.com, 7) and Email failed; the second run, inside the cooldown, sent it
\* to Slack again
C33_Witness ==
    /\ Len(attempts) = 2
    /\ attempts[1].host = "a.com" /\ attempts[1].threshold = 7
    /\ attempts[2].host = "a.com" /\ attempts[2].threshold = 7
    /\ attempts[1].run = 1
    /\ attempts[2].run = 2
    /\ attempts[1].ok = {"Slack"}
    /\ "Slack" \in attempts[2].ok
    /\ attempts[2].at - attempts[1].at <= cfg.cooldownHours * Hour

\* C34: with no channel enabled the dispatcher calls nothing and returns nil,
\* so for every threshold that is crossed and eligible the engine calls
\* MarkSent, which sets the entry, and the run counts a notification as
\* sent: the notifications it reports are the dispatches that returned nil
C34_NoChannelStillMarksAndCounts ==
    [][\A p \in Procs :
          (Notifiers = <<>> /\ eng[p].ret = "running" /\ pc'[p] # "none") =>
              /\ (/\ pc[p] = "thresh"
                  /\ evals'[p] # evals[p]
                  /\ eng[p].j <= Len(ReminderDays)
                  /\ Crossed(eng[p].days, ReminderDays[eng[p].j])
                  /\ ShouldSend(mgr[p], Domains[eng[p].i].host,
                                ReminderDays[eng[p].j], now))
                    => /\ pc'[p] = "send"
                       /\ dsp'[p].calls = <<>>
                       /\ SendLoopDone(dsp'[p])
              /\ (pc[p] = "send" /\ pc'[p] # "send")
                    => /\ dsp[p].calls = <<>>
                       /\ dsp'[p].state = "sent"
                       /\ pc'[p] = "open"
                       /\ sv'[p].op = "MarkSent"
                       /\ HasEntry(mgr'[p].entries, dsp[p].n.host, dsp[p].n.threshold)
                       /\ mgr'[p].entries[dsp[p].n.host][dsp[p].n.threshold] = Now(now)
                       /\ eng'[p].successes = eng[p].successes + 1
              /\ pc'[p] = "loop"
                    => eng'[p].totalNotifications = eng'[p].successes
      ]_vars

\* C35: with the empty state-file path every store is constructed empty and
\* without an error, whatever a store before it marked; MarkSent and Clear
\* return nil as soon as save is entered, with the mark or the empty mapping
\* in memory; no step writes, truncates or creates a file, and the path of
\* the store stays empty
C35_EmptyPathNeverPersists ==
    [][cfg.stateFile = EmptyPath =>
          /\ disk' = disk
          /\ \A path \in Paths : disk[path] = Absent
          /\ lastLoad'.err \in {"none", "nil"}
          /\ lastLoad'.doc = EmptyMap
          /\ runs' = runs + 1 => \E p \in Procs : pc[p] = "none" /\ pc'[p] # "none"
          /\ \A p \in Procs :
                /\ obs'[p].err = "nil"
                /\ pc'[p] # "write"
                /\ sv'[p].stage # "fallback"
                /\ mgr'[p].filePath = EmptyPath
                /\ (pc[p] = "none" /\ pc'[p] # "none") =>
                      /\ mgr'[p].entries = EmptyMap
                      /\ \A domain \in Hosts, threshold \in Thresholds :
                            ShouldSend(mgr'[p], domain, threshold, now)
                /\ (pc[p] = "open" /\ pc'[p] # "none" /\ now' = now
                        /\ eng'[p].cancelled = eng[p].cancelled) =>
                      /\ pc'[p] \in {"ready", "thresh"}
                      /\ mgr'[p] = mgr[p]
                      /\ pc'[p] = "ready" => obs'[p] = [op |-> sv[p].op, err |-> "nil"]
                      /\ pc'[p] = "thresh" =>
                            eng'[p].notificationsSent = eng[p].notificationsSent + 1
                      /\ sv[p].op = "MarkSent" =>
                            \E domain \in Hosts, threshold \in Thresholds :
                                /\ HasEntry(mgr[p].entries, domain, threshold)
                                /\ ~ShouldSend(mgr[p], domain, threshold, now)
                      /\ sv[p].op = "Clear" => mgr[p].entries = EmptyMap
      ]_vars

\* C35 witness: the first run sent the notification for (a.com, 7) and its
\* MarkSent returned nil; the second run, inside the cooldown, started from an
\* empty store, sent it again and reported one notification sent; no file
\* exists
C35_Witness ==
    /\ cfg.stateFile = EmptyPath
    /\ runs = 2
    /\ lastLoad.saved
    /\ lastLoad.expect # EmptyMap
    /\ lastLoad.doc = EmptyMap
    /\ Len(delivered) = 2
    /\ delivered[1].host = "a.com" /\ delivered[1].threshold = 7
    /\ delivered[2].host = "a.com" /\ delivered[2].threshold = 7
    /\ delivered[2].at - delivered[1].at <= cfg.cooldownHours * Hour
    /\ \E p \in Procs : pc[p] = "done" /\ eng[p].totalNotifications = 1
    /\ \A path \in Paths : disk[path] = Absent

\* C36: a call of MarkSent(d, t) sets the entry for (d, t) and leaves every
\* other pair as it was, present or absent and with its time, and the save
\* it makes changes no entry in memory and writes these entries only; the
\* evaluation of a threshold, with its calls of ShouldSend and GetLastSent,
\* changes neither the store in memory nor a file, and what GetLastSent
\* returns for any pair is the same before and after it
C36_MarkSentTouchesOnePairReadsTouchNothing ==
    [][\A p \in Procs :
          (Live(p) /\ pc'[p] # "none") =>
              /\ (sv[p].op = "none" /\ sv'[p].op = "MarkSent") =>
                    /\ mgr'[p].entries[dsp[p].n.host][dsp[p].n.threshold] = Now(now)
                    /\ \A d2 \in Hosts, t2 \in Thresholds :
                          (d2 # dsp[p].n.host \/ t2 # dsp[p].n.threshold) =>
                              GetLastSent(mgr'[p], d2, t2) = GetLastSent(mgr[p], d2, t2)
                    /\ disk' = disk
              /\ (pc[p] \in {"open", "write"} /\ <<pc'[p], sv'[p]>> # <<pc[p], sv[p]>>) =>
                    /\ mgr'[p].entries = mgr[p].entries
                    /\ \A path \in Paths :
                          disk'[path] # disk[path] =>
                              disk'[path] \in {Partial, Json(Marshal(mgr[p].entries))}
              /\ (evals'[p] # evals[p] /\ evals'[p] # <<>>) =>
                    /\ mgr'[p] = mgr[p]
                    /\ disk' = disk
                    /\ saved' = saved
                    /\ evals'[p][Len(evals'[p])].should =
                          ShouldSend(mgr'[p], Domains[eng[p].i].host,
                                     evals'[p][Len(evals'[p])].threshold, now)
                    /\ \A d2 \in Hosts, t2 \in Thresholds :
                          GetLastSent(mgr'[p], d2, t2) = GetLastSent(mgr[p], d2, t2)
      ]_vars

\* C36 witness: the store was loaded with the entry (a.com, 7) of time 0;
\* half an hour later the run has marked (b.com, 7), and the entry for
\* (a.com, 7) is as it was loaded
C36_Witness ==
    \E p \in Procs :
        /\ runs = 2
        /\ pc[p] = "open"
        /\ sv[p].op = "MarkSent"
        /\ dsp[p].n.host = "b.com"
        /\ dsp[p].n.threshold = 7
        /\ GetLastSent(mgr[p], "b.com", 7) = [wall |-> 1, mono |-> TRUE, ok |-> TRUE]
        /\ GetLastSent(mgr[p], "a.com", 7) = [wall |-> 0, mono |-> FALSE, ok |-> TRUE]
        /\ ~GetLastSent(mgr[p], "a.com", 1).ok
        /\ ~GetLastSent(mgr[p], "b.com", 1).ok

====
